---------------------------- MODULE Spec2Model ----------------------------
(***************************************************************************)
(* A model of ebml-iterable: the vint codec (src/src/tools.rs), the        *)
(* streaming reader TagIterator (src/src/tag_iterator.rs) with its path    *)
(* validator (src/src/spec_util.rs), and the writer TagWriter              *)
(* (src/src/tag_writer.rs), over the schema of src/tests/test_spec.rs.     *)
(*                                                                         *)
(* Representation of machine integers.  A u64/i64 is the sequence of its   *)
(* 8 big-endian bytes (what to_be_bytes() returns), so that the whole      *)
(* 64-bit range is exact.  A tag id is the sequence of its significant     *)
(* big-endian bytes (id.to_be_bytes() without leading zeros).  Offsets     *)
(* and element sizes are naturals.                                         *)
(***************************************************************************)
EXTENDS Integers, Sequences, FiniteSets, TLC

VARIABLES
    vt,     \* the vint codec under test: input value, encoding, decoding
    wr,     \* the TagWriter: dest, open_tags, working_buffer
    it,     \* the TagIterator: source, buffer, tag_stack, emission_queue, ...
    obs     \* observations: the items returned by next(), the tags written

vars == <<vt, wr, it, obs>>

-----------------------------------------------------------------------------
(* Bytes and bits *)

RECURSIVE Pow2(_)
Pow2(n) == IF n = 0 THEN 1 ELSE 2 * Pow2(n - 1)

Min(a, b) == IF a < b THEN a ELSE b
Max(a, b) == IF a > b THEN a ELSE b

\* u8::ilog2, for b in 1..255
ilog2(b) == CHOOSE k \in 0..7 : Pow2(k) <= b /\ b < Pow2(k + 1)

\* bit k of byte b
BitSet(b, k) == (b \div Pow2(k)) % 2 = 1

\* b | (1 << k) and b & (0xFF >> k) for a byte b
OrBit(b, k) == IF BitSet(b, k) THEN b ELSE b + Pow2(k)
LowBits(b, k) == b % Pow2(8 - k)

Zeros(n) == [i \in 1..n |-> 0]
Repeat(b, n) == [i \in 1..n |-> b]

\* s[from..] and s[from..to) with Rust's 0-based indices
SliceFrom(s, from) == SubSeq(s, from + 1, Len(s))
Slice(s, from, to) == SubSeq(s, from + 1, to)

\* lexicographic order on byte sequences of the same length:
\* the order of the unsigned big-endian numbers
LexLt(a, b) ==
    \E i \in 1..Len(a) : a[i] < b[i] /\ \A j \in 1..(i - 1) : a[j] = b[j]

U64Lt(a, b) == LexLt(a, b)
U64Ge(a, b) == ~LexLt(a, b)

\* order of i64 values given as two's complement bytes
I64Neg(a) == a[1] >= 128
I64Lt(a, b) == IF I64Neg(a) # I64Neg(b) THEN I64Neg(a) ELSE LexLt(a, b)
I64Le(a, b) == a = b \/ I64Lt(a, b)
I64Ge(a, b) == ~I64Lt(a, b)

\* (1 << k) as u64 / i64 bytes, k in 0..63
Shl1(k) == [i \in 1..8 |-> IF 8 - i = k \div 8 THEN Pow2(k % 8) ELSE 0]

\* -(1 << k) as i64 bytes, k in 0..63
NegShl1(k) ==
    [i \in 1..8 |-> IF 8 - i > k \div 8 THEN 255
                    ELSE IF 8 - i = k \div 8 THEN 256 - Pow2(k % 8)
                    ELSE 0]

\* a small natural as u64 bytes (n < 2^31)
U64(n) == [i \in 1..8 |-> IF i <= 4 THEN 0 ELSE (n \div Pow2(8 * (8 - i))) % 256]

\* the significant bytes of a big-endian number: skip_while(|v| v == 0)
RECURSIVE SkipZeros(_)
SkipZeros(s) ==
    IF s = <<>> THEN <<>>
    ELSE IF s[1] = 0 THEN SkipZeros(Tail(s)) ELSE s

\* a big-endian byte sequence as a natural (exact; only sizes below
\* 2^MaxSizeBits are converted, see SizeFits)
RECURSIVE BytesToNat(_)
BytesToNat(s) ==
    IF s = <<>> THEN 0
    ELSE 256 * BytesToNat(SubSeq(s, 1, Len(s) - 1)) + s[Len(s)]

-----------------------------------------------------------------------------
(* tools.rs: the vint codec *)

OkBytes(b) == [ok |-> TRUE, bytes |-> b, err |-> "none"]
ErrBytes(e) == [ok |-> FALSE, bytes |-> <<>>, err |-> e]

\* check_size_u64: Err iff val >= (1 << max_length * 7)
check_size_u64(val, max_length) == U64Lt(val, Shl1(max_length * 7))

\* as_vint_no_check_u64
as_vint_no_check_u64(val, length) ==
    LET result == SliceFrom(val, 8 - length)
    IN  [result EXCEPT ![1] = OrBit(result[1], 8 - length)]

\* the mutated length search of as_vint: <= where the code has <
as_vint_length_le(val) ==
    LET fits(l) == l <= 8 /\ ~U64Lt(Shl1(7 * l), val)
    IN  IF \E l \in 1..8 : fits(l) THEN CHOOSE l \in 1..8 : fits(l) /\ \A k \in 1..(l - 1) : ~fits(k)
        ELSE 9

\* the while loop of as_vint: the first length in 1..8 with val < (1 << 7 * length)
as_vint_length(val) ==
    LET fits(l) == U64Lt(val, Shl1(7 * l))
    IN  IF \E l \in 1..8 : fits(l)
        THEN CHOOSE l \in 1..8 : fits(l) /\ \A k \in 1..(l - 1) : ~fits(k)
        ELSE 9

\* Vint::as_vint
as_vint(val) ==
    IF ~check_size_u64(val, 8) THEN ErrBytes("WriteVintOverflow")
    ELSE OkBytes(as_vint_no_check_u64(val, as_vint_length(val)))

\* Vint::as_vint_with_length
as_vint_with_length(val, length) ==
    IF ~check_size_u64(val, length) THEN ErrBytes("WriteVintOverflow")
    ELSE OkBytes(as_vint_no_check_u64(val, length))

\* the result of read_vint / read_signed_vint:
\*   Err(ReadVintOverflow) | Ok(None) | Ok(Some((value, length)))
VintErr == [res |-> "err", value |-> Zeros(8), length |-> 0]
VintNone == [res |-> "none", value |-> Zeros(8), length |-> 0]
VintSome(v, l) == [res |-> "some", value |-> v, length |-> l]

\* the last 8 bytes of s, zero-extended on the left: a u64 built by
\* repeated value <<= 8; value += byte
Low8(s) == IF Len(s) >= 8 THEN SliceFrom(s, Len(s) - 8) ELSE Zeros(8 - Len(s)) \o s

\* read_vint
read_vint(buffer) ==
    IF buffer = <<>> THEN VintNone
    ELSE IF buffer[1] = 0 THEN VintErr
    ELSE LET length == 8 - ilog2(buffer[1])
         IN  IF length > Len(buffer) THEN VintNone
             ELSE VintSome(Low8(<<buffer[1] - Pow2(8 - length)>> \o Slice(buffer, 1, length)),
                           length)

\* check_size_i64: Err iff val <= -(1 << (max_length * 7 - 1)) or val >= (1 << (max_length * 7 - 1))
check_size_i64(val, max_length) ==
    ~(I64Le(val, NegShl1(max_length * 7 - 1)) \/ I64Ge(val, Shl1(max_length * 7 - 1)))

\* as_vint_no_check_i64
as_vint_no_check_i64(val, length) ==
    LET result == SliceFrom(val, 8 - length)
    IN  IF I64Neg(val)
        THEN [result EXCEPT ![1] = LowBits(result[1], length - 1)]
        ELSE [result EXCEPT ![1] = OrBit(result[1], 8 - length)]

\* the while loop of as_signed_vint
as_signed_vint_length(val) ==
    LET fits(l) == I64Ge(val, NegShl1(7 * l - 1)) /\ I64Lt(val, Shl1(7 * l - 1))
    IN  IF \E l \in 1..8 : fits(l)
        THEN CHOOSE l \in 1..8 : fits(l) /\ \A k \in 1..(l - 1) : ~fits(k)
        ELSE 9

\* SignedVint::as_signed_vint
as_signed_vint(val) ==
    IF ~check_size_i64(val, 8) THEN ErrBytes("WriteSignedVintOverflow")
    ELSE OkBytes(as_vint_no_check_i64(val, as_signed_vint_length(val)))

\* SignedVint::as_signed_vint_with_length
as_signed_vint_with_length(val, length) ==
    IF ~check_size_i64(val, length) THEN ErrBytes("WriteSignedVintOverflow")
    ELSE OkBytes(as_vint_no_check_i64(val, length))

\* read_signed_vint
read_signed_vint(buffer) ==
    IF buffer = <<>> THEN VintNone
    ELSE IF buffer[1] = 0 THEN VintErr
    ELSE LET length == 8 - ilog2(buffer[1])
             is_negative == IF length = 8 THEN BitSet(buffer[2], 7)
                            ELSE BitSet(buffer[1], 7 - length)
             \* (buffer[0] as i64) | (!0i64 << (8 - length)): the low byte
             first == IF is_negative
                      THEN (buffer[1] % Pow2(8 - length)) + (256 - Pow2(8 - length))
                      ELSE LowBits(buffer[1], length)
             high == IF is_negative THEN Repeat(255, 7) ELSE Zeros(7)
         IN  IF length > Len(buffer) THEN VintNone
             ELSE VintSome(Low8(high \o <<first>> \o Slice(buffer, 1, length)), length)

-----------------------------------------------------------------------------
(* tests/test_spec.rs: the schema TestSpec *)

Root == <<129>>
IntTag == <<65, 1>>
String == <<65, 2>>
Parent == <<65, 3>>
Child == <<33, 3, 1>>
Ebml == <<26, 69, 223, 163>>
Segment == <<24, 83, 128, 103>>
TrackType == <<131>>
Cluster == <<31, 67, 182, 117>>
CueRefCluster == <<151>>
Count == <<65, 0>>
Block == <<161>>
SimpleBlock == <<163>>
Crc32 == <<191>>
Void == <<236>>

MasterIds == {Root, Parent, Ebml, Segment, Cluster}
UnsignedIntIds == {IntTag, Child, TrackType, CueRefCluster, Count}
Utf8Ids == {String}
BinaryIds == {Block, SimpleBlock, Crc32, Void}
SpecIds == MasterIds \cup UnsignedIntIds \cup Utf8Ids \cup BinaryIds

\* EbmlSpecification::get_tag_data_type: "None" for an id that is not in the schema
get_tag_data_type(id) ==
    IF id \in MasterIds THEN "Master"
    ELSE IF id \in UnsignedIntIds THEN "UnsignedInt"
    ELSE IF id \in Utf8Ids THEN "Utf8"
    ELSE IF id \in BinaryIds THEN "Binary"
    ELSE "None"

\* PathPart::Id(id) and PathPart::Global((min, max)); -1 stands for None
PathId(id) == [k |-> "Id", id |-> id, min |-> -1, max |-> -1]
PathGlobal(min, max) == [k |-> "Global", id |-> <<>>, min |-> min, max |-> max]

\* EbmlSpecification::get_path_by_id
get_path_by_id(id) ==
    IF id \in {IntTag, String, Parent} THEN <<PathId(Root)>>
    ELSE IF id = Child THEN <<PathId(Root), PathId(Parent)>>
    ELSE IF id \in {TrackType, Cluster} THEN <<PathId(Segment)>>
    ELSE IF id \in {CueRefCluster, Count, Block, SimpleBlock}
         THEN <<PathId(Segment), PathId(Cluster)>>
    ELSE IF id = Crc32 THEN <<PathGlobal(1, -1)>>
    ELSE IF id = Void THEN <<PathGlobal(-1, -1)>>
    ELSE <<>>

\* A value of TestSpec.  m is the Master envelope ("Start", "End", "Full") of a
\* master variant and "NotMaster" otherwise; val is the payload of a primitive:
\* the u64 (8 bytes) of an UnsignedInt, the bytes of a Utf8 or Binary;
\* raw marks the variant RawTag(id, data).
MasterTag(id, m) == [id |-> id, m |-> m, val |-> <<>>, children |-> <<>>, raw |-> FALSE]
FullTag(id, children) == [id |-> id, m |-> "Full", val |-> <<>>, children |-> children, raw |-> FALSE]
PrimTag(id, val) == [id |-> id, m |-> "NotMaster", val |-> val, children |-> <<>>, raw |-> FALSE]
RawTag(id, data) == [id |-> id, m |-> "NotMaster", val |-> data, children |-> <<>>, raw |-> TRUE]

\* EbmlTag::get_id
get_id(tag) == tag.id

\* EbmlTag::as_master: the envelope, "NotMaster" for None
as_master(tag) == tag.m

\* EbmlSpecification::get_path_by_tag
get_path_by_tag(tag) == get_path_by_id(get_id(tag))

-----------------------------------------------------------------------------
(* tag_iterator_util.rs: EBMLSize and ProcessingTag *)

Known(n) == [known |-> TRUE, value |-> n]
Unknown == [known |-> FALSE, value |-> 0]

\* (1 << (7 * l)) - 1 as u64 bytes
AllOnes(l) ==
    [i \in 1..8 |-> IF 8 * (8 - i) + 8 <= 7 * l THEN 255
                    ELSE IF 8 * (8 - i) < 7 * l THEN Pow2(7 * l - 8 * (8 - i)) - 1
                    ELSE 0]

\* size.try_into(): usize
SizeToNat(size) == BytesToNat(SkipZeros(size))

\* EBMLSize::new with the all-ones test left out
EBMLSize_new_no_unknown(size, vint_length) == Known(SizeToNat(size))

\* EBMLSize::new
EBMLSize_new(size, vint_length) ==
    IF vint_length \in 1..8 /\ size = AllOnes(vint_length) THEN Unknown
    ELSE Known(SizeToNat(size))

ProcessingTag(tag, size, tag_start, data_start) ==
    [tag |-> tag, size |-> size, tag_start |-> tag_start, data_start |-> data_start]

\* ProcessingTag::is_parent
PT_is_parent(pt, id) ==
    \E i \in DOMAIN get_path_by_tag(pt.tag) :
        get_path_by_tag(pt.tag)[i].k = "Id" /\ get_path_by_tag(pt.tag)[i].id = id

\* ProcessingTag::is_sibling
PT_is_sibling(pt, compare) == get_path_by_tag(pt.tag) = get_path_by_id(compare)

\* ProcessingTag::is_ended_by
PT_is_ended_by(pt, id) ==
    \/ PT_is_parent(pt, id)
    \/ PT_is_sibling(pt, id)
    \/ (get_tag_data_type(id) # "None" /\ get_path_by_id(id) = <<>>)

-----------------------------------------------------------------------------
(* spec_util.rs: the path validator *)

\* is_parent
is_parent(current_id, test_id) ==
    \E i \in DOMAIN get_path_by_id(current_id) :
        get_path_by_id(current_id)[i].k = "Id" /\ get_path_by_id(current_id)[i].id = test_id

\* is_sibling
is_sibling(current_id, test_id) == get_path_by_id(current_id) = get_path_by_id(test_id)

\* is_ended_by
is_ended_by(current_id, test_id) ==
    \/ is_parent(current_id, test_id)
    \/ is_sibling(current_id, test_id)
    \/ (get_tag_data_type(test_id) # "None" /\ get_path_by_id(test_id) = <<>>)

\* the for loop of validate_tag_path over doc_path[i..], then its final expression
RECURSIVE validate_from(_, _, _, _, _, _)
validate_from(tag_id, path, doc_path, i, path_marker, global_counter) ==
    IF i > Len(doc_path)
    THEN \/ Len(path) = path_marker
         \/ /\ Len(path) - 1 = path_marker
            /\ path[path_marker + 1].k = "Global"
            /\ global_counter >= Max(path[path_marker + 1].min, 0)
    ELSE LET item == doc_path[i]
             current_node_id == get_id(item.tag)
         IN  IF ~item.size.known /\ is_ended_by(current_node_id, tag_id) THEN TRUE
             ELSE IF path_marker >= Len(path) THEN FALSE
             ELSE IF path[path_marker + 1].k = "Id"
                  THEN IF path[path_marker + 1].id # current_node_id THEN FALSE
                       ELSE validate_from(tag_id, path, doc_path, i + 1, path_marker + 1,
                                          global_counter)
             ELSE LET min == path[path_marker + 1].min
                      max == path[path_marker + 1].max
                      counter == global_counter + 1
                  IN  IF max # -1 /\ counter > max THEN FALSE
                      ELSE IF /\ Len(path) > path_marker + 1
                              /\ path[path_marker + 2].k = "Id"
                              /\ path[path_marker + 2].id = current_node_id
                           THEN IF min # -1 /\ counter < min THEN FALSE
                                ELSE validate_from(tag_id, path, doc_path, i + 1,
                                                   path_marker + 2, 0)
                           ELSE validate_from(tag_id, path, doc_path, i + 1, path_marker,
                                              counter)

\* validate_tag_path
validate_tag_path(tag_id, doc_path) ==
    validate_from(tag_id, get_path_by_id(tag_id), doc_path, 1, 0, 0)

-----------------------------------------------------------------------------
(* errors.rs: TagIteratorError, and the items of the emission queue *)

\* Option<T> is a sequence of at most one element
None == <<>>
Some(x) == <<x>>

BaseErr ==
    [kind |-> "none", tag_id |-> None, position |-> -1, size |-> None,
     parent |-> None, problem |-> "none", partial |-> None]

InvalidTagId(tag_id, position) ==
    [BaseErr EXCEPT !.kind = "InvalidTagId", !.tag_id = Some(tag_id), !.position = position]
InvalidTagData(tag_id, position) ==
    [BaseErr EXCEPT !.kind = "InvalidTagData", !.tag_id = Some(tag_id), !.position = position]
HierarchyError(found_tag_id, current_parent_id) ==
    [BaseErr EXCEPT !.kind = "HierarchyError", !.tag_id = Some(found_tag_id),
                    !.parent = current_parent_id]
OversizedChildElement(position, tag_id, size) ==
    [BaseErr EXCEPT !.kind = "OversizedChildElement", !.tag_id = Some(tag_id),
                    !.position = position, !.size = Some(size)]
\* CorruptedFileError::InvalidTagSize, which tests/corrupt_data_tests.rs
\* matches on (error_on_oversized_tag) and errors.rs does not declare
InvalidTagSize(position, tag_id, size) ==
    [BaseErr EXCEPT !.kind = "InvalidTagSize", !.tag_id = Some(tag_id),
                    !.position = position, !.size = Some(size)]
\* position holds tag_start
UnexpectedEOF(tag_start, tag_id, tag_size, partial_data) ==
    [BaseErr EXCEPT !.kind = "UnexpectedEOF", !.position = tag_start, !.tag_id = tag_id,
                    !.size = tag_size, !.partial = partial_data]
CorruptedTagData(tag_id, problem) ==
    [BaseErr EXCEPT !.kind = "CorruptedTagData", !.tag_id = Some(tag_id), !.problem = problem]

NoTag == [id |-> <<>>, m |-> "NotMaster", val |-> <<>>, children |-> <<>>, raw |-> FALSE]

\* Result<(TSpec, usize), TagIteratorError>
OkItem(tag, offset) == [ok |-> TRUE, tag |-> tag, off |-> offset, err |-> BaseErr]
ErrItem(err) == [ok |-> FALSE, tag |-> NoTag, off |-> -1, err |-> err]

-----------------------------------------------------------------------------
(* tag_iterator.rs: TagIterator *)

INVALID_TAG_ID_ERROR == 1
INVALID_HIERARCHY_ERROR == 2
OVERSIZED_CHILD_ERROR == 4
DEFAULT_BUFFER_LEN == 65536

\* the test of an allowance with allowed_errors != 0 in place of the mask
Allows_any(allowed_errors, flag) == allowed_errors # 0

\* allowed_errors & flag != 0, for a flag that is a power of two
Allows(allowed_errors, flag) == (allowed_errors \div flag) % 2 = 1

\* source_chunk of a source that, like a Cursor, yields in one read every byte
\* the buffer has room for
WholeReads == DEFAULT_BUFFER_LEN

\* TagIterator::with_capacity.  The source yields the bytes of source_data, at
\* most source_chunk of them in one read.  buffer
\* holds the part of the boxed slice that has been written; the rest of its
\* capacity bytes are the zeros of vec![0; capacity].  buffer_offset -1 is None.
\* panic is the message of the panic that has aborted the iterator; log is the
\* list of the headers read_tag has seen.
with_capacity(source_data, tags_to_buffer, capacity) ==
    [source_data |-> source_data, source_pos |-> 0, source_chunk |-> WholeReads,
     tag_ids_to_buffer |-> tags_to_buffer,
     allowed_errors |-> 0,
     buffer |-> <<>>, capacity |-> capacity,
     buffered_byte_length |-> 0,
     buffer_offset |-> -1,
     internal_buffer_position |-> 0,
     tag_stack |-> <<>>,
     emission_queue |-> <<>>,
     last_emitted_tag_offset |-> 0,
     has_determined_doc_path |-> FALSE,
     max_allowed_tag_size |-> None,
     panic |-> "none",
     log |-> <<>>]

\* TagIterator::new
TagIterator_new(source_data, tags_to_buffer) ==
    with_capacity(source_data, tags_to_buffer, DEFAULT_BUFFER_LEN)

\* The model follows sizes below 2^MaxSizeBits only.  A header with a larger
\* Known size that passes the id and hierarchy checks ends the run of the model
\* (the code goes on with it, and allocates that many bytes for a non-master).
MaxSizeBits == 24
OutOfModel == "size of 2^MaxSizeBits or more"
SizeFits(size, vint_length) ==
    \/ vint_length \in 1..8 /\ size = AllOnes(vint_length)
    \/ U64Lt(size, Shl1(MaxSizeBits))

\* panic is the panic message once the iterator has panicked, or OutOfModel
Panicked(i) == i.panic # "none"
Crashed(i) == i.panic \notin {"none", OutOfModel}
Panic(i, msg) == [i EXCEPT !.panic = msg]

\* TagIterator::current_offset
current_offset(i) ==
    (IF i.buffer_offset = -1 THEN 0 ELSE i.buffer_offset) + i.internal_buffer_position

\* buffer[index] of the boxed slice (index < capacity)
BufAt(i, index) == IF index < Len(i.buffer) THEN i.buffer[index + 1] ELSE 0

\* buffer[from..to) of the boxed slice (to <= capacity)
BufSlice(i, from, to) == [k \in 1..(to - from) |-> BufAt(i, from + k - 1)]

\* writing chunk at buffer[start..start + Len(chunk))
Overwrite(buffer, start, chunk) ==
    LET padded == IF Len(buffer) < start THEN buffer \o Zeros(start - Len(buffer))
                  ELSE buffer
    IN  SubSeq(padded, 1, start) \o chunk
            \o SubSeq(padded, start + Len(chunk) + 1, Len(padded))

\* TagIterator::private_read: Read::read fills as much of
\* buffer[internal_buffer_start..] as the source has left, and no more than
\* source_chunk bytes
private_read(i, internal_buffer_start) ==
    LET filled(n) ==
            IF n <= 0 THEN [it |-> i, ok |-> FALSE]
            ELSE [it |-> [i EXCEPT !.buffer = Overwrite(@, internal_buffer_start,
                                         SubSeq(i.source_data, i.source_pos + 1,
                                                i.source_pos + n)),
                                   !.source_pos = @ + n,
                                   !.buffered_byte_length = @ + n],
                  ok |-> TRUE]
    IN  filled(Min(Min(i.capacity - internal_buffer_start, i.source_chunk),
                   Len(i.source_data) - i.source_pos))

\* the while loop of ensure_data_read.  copy_within(position..length, 0) panics
\* when the range starts after its end.
RECURSIVE ensure_data_read_loop(_, _)
ensure_data_read_loop(i, length) ==
    LET refill(moved) ==
            LET read(r) == IF ~r.ok THEN [it |-> r.it, ok |-> FALSE]
                           ELSE ensure_data_read_loop(r.it, length)
            IN  read(private_read(moved, moved.buffered_byte_length))
    IN  IF ~(i.internal_buffer_position + length > i.buffered_byte_length)
        THEN [it |-> i, ok |-> TRUE]
        ELSE IF i.internal_buffer_position > i.buffered_byte_length
        THEN [it |-> Panic(i, "slice index starts after its end"), ok |-> FALSE]
        ELSE refill([i EXCEPT
                 !.buffer = SubSeq(@, i.internal_buffer_position + 1, i.buffered_byte_length)
                            \o SubSeq(@, i.buffered_byte_length - i.internal_buffer_position + 1,
                                      Len(@)),
                 !.buffered_byte_length = @ - i.internal_buffer_position,
                 !.buffer_offset = current_offset(i),
                 !.internal_buffer_position = 0])

\* TagIterator::ensure_data_read
ensure_data_read(i, length) ==
    LET first_read(r) ==
            IF ~r.ok THEN [it |-> r.it, ok |-> FALSE]
            ELSE [it |-> [r.it EXCEPT !.buffer_offset = 0, !.internal_buffer_position = 0],
                  ok |-> TRUE]
    IN  IF i.internal_buffer_position + length <= i.buffered_byte_length
        THEN [it |-> i, ok |-> TRUE]
        ELSE IF i.buffer_offset = -1 THEN first_read(private_read(i, 0))
        ELSE ensure_data_read_loop(i, length)

\* TagIterator::peek_tag_id: the id and its length.  Indexing the boxed slice
\* past its end panics.
peek_tag_id(i0) ==
    LET peek(i) ==
            LET pos == i.internal_buffer_position
                id_at(first, length) ==
                    IF Panicked(i) THEN [it |-> i, tag_id |-> <<>>, id_len |-> 0]
                    ELSE IF pos >= i.capacity
                    THEN [it |-> Panic(i, "index out of bounds"), tag_id |-> <<>>, id_len |-> 0]
                    ELSE IF first = 0 THEN [it |-> i, tag_id |-> <<>>, id_len |-> 1]
                    ELSE IF pos + length > i.capacity
                    THEN [it |-> Panic(i, "index out of bounds"), tag_id |-> <<>>, id_len |-> 0]
                    ELSE [it |-> i, tag_id |-> BufSlice(i, pos, pos + length),
                          id_len |-> length]
            IN  id_at(BufAt(i, pos), 8 - ilog2(BufAt(i, pos)))
    IN  peek(ensure_data_read(i0, 8).it)

\* the result of peek_valid_tag_header
HdrErr(i, err) ==
    [it |-> i, ok |-> FALSE, err |-> err, tag_id |-> <<>>, type |-> "None",
     size |-> Unknown, header_len |-> 0]
HdrOk(i, tag_id, type, size, header_len) ==
    [it |-> i, ok |-> TRUE, err |-> BaseErr, tag_id |-> tag_id, type |-> type,
     size |-> size, header_len |-> header_len]

\* is_invalid_tag_size with the size of the new element left out of the comparison
is_invalid_tag_size_ignoring_size(i, size) ==
    \E k \in DOMAIN i.tag_stack :
        /\ i.tag_stack[k].size.known
        /\ i.tag_stack[k].data_start + i.tag_stack[k].size.value < current_offset(i)

\* TagIterator::is_invalid_tag_size
is_invalid_tag_size(i, size) ==
    \E k \in DOMAIN i.tag_stack :
        /\ i.tag_stack[k].size.known
        /\ i.tag_stack[k].data_start + i.tag_stack[k].size.value < current_offset(i) + size

\* the stack peek_valid_tag_header builds from the path of the first tag
SynthesizedStack(path) ==
    [k \in DOMAIN path |-> ProcessingTag(MasterTag(path[k].id, "Start"), Unknown, 0, 0)]

\* the hierarchy block without the test of has_determined_doc_path: the stack
\* is synthesized from every tag with an all-Id path
determine_doc_path_every_time(i, tag_id) ==
    LET path == get_path_by_id(tag_id)
    IN  IF \A k \in DOMAIN path : path[k].k = "Id"
        THEN IF \E k \in DOMAIN path : path[k].id \notin MasterIds
             THEN Panic(i, "Bad specification implementation")
             ELSE [i EXCEPT !.tag_stack = SynthesizedStack(path),
                            !.has_determined_doc_path = TRUE]
        ELSE i

\* the hierarchy block of peek_valid_tag_header: the iterator after the stack
\* has been synthesized (or not)
determine_doc_path(i, tag_id) ==
    LET path == get_path_by_id(tag_id)
    IN  IF i.has_determined_doc_path THEN i
        ELSE IF \A k \in DOMAIN path : path[k].k = "Id"
        THEN IF \E k \in DOMAIN path : path[k].id \notin MasterIds
             THEN Panic(i, "Bad specification implementation")
             ELSE [i EXCEPT !.tag_stack = SynthesizedStack(path),
                            !.has_determined_doc_path = TRUE]
        ELSE i

\* TagIterator::set_max_allowable_tag_size, which tests/corrupt_data_tests.rs
\* calls (error_on_oversized_tag) and tag_iterator.rs does not define
set_max_allowable_tag_size(i, size) == [i EXCEPT !.max_allowed_tag_size = size]

\* the test with >= in place of >
max_allowed_tag_size_reached(i, v) ==
    i.max_allowed_tag_size # None /\ ~U64Lt(v.value, U64(i.max_allowed_tag_size[1]))

\* the size vint v of a header declares more than the maximum tag size
over_max_allowed_tag_size(i, v) ==
    i.max_allowed_tag_size # None /\ U64Lt(U64(i.max_allowed_tag_size[1]), v.value)

\* current_parent_id taken from the outermost entry of the stack
current_parent_id_outermost(i) ==
    IF i.tag_stack = <<>> THEN None ELSE Some(get_id(i.tag_stack[1].tag))

\* self.tag_stack.last().map(|tag| tag.tag.get_id())
current_parent_id(i) ==
    IF i.tag_stack = <<>> THEN None ELSE Some(get_id(i.tag_stack[Len(i.tag_stack)].tag))

\* TagIterator::peek_valid_tag_header.  The results of ensure_data_read are
\* dropped, so the header is decoded from whatever the buffer holds at the
\* read position.  The test of the maximum tag size follows the written
\* specification of the reader: the source under src/ has no such test.
peek_valid_tag_header(i0) ==
    LET header(i1, p) ==
            LET i == p.it
                tag_id == p.tag_id
                spec_tag_type == get_tag_data_type(p.tag_id)
                vstart == p.it.internal_buffer_position + p.id_len
                check_hierarchy == ~Allows(p.it.allowed_errors, INVALID_HIERARCHY_ERROR)
                                   /\ get_tag_data_type(p.tag_id) # "None"
                sized(v, size, j) ==
                    IF Panicked(i1) THEN HdrErr(i1, BaseErr)
                    ELSE IF Panicked(i) THEN HdrErr(i, BaseErr)
                    ELSE IF vstart > i.capacity
                    THEN HdrErr(Panic(i, "range start out of bounds"), BaseErr)
                    ELSE IF v.res = "err"
                    THEN HdrErr(i, InvalidTagData(tag_id, current_offset(i)))
                    ELSE IF v.res = "none"
                    THEN HdrErr(i, UnexpectedEOF(current_offset(i), Some(tag_id), None, None))
                    ELSE IF over_max_allowed_tag_size(i, v) /\ ~SizeFits(v.value, v.length)
                    THEN HdrErr(Panic(i, OutOfModel), BaseErr)
                    ELSE IF over_max_allowed_tag_size(i, v) /\ size.known
                    THEN HdrErr(i, InvalidTagSize(current_offset(i), tag_id, size.value))
                    ELSE IF /\ spec_tag_type \in {"UnsignedInt", "Integer", "Float"}
                            /\ U64Lt(U64(8), v.value)
                    THEN HdrErr(i, InvalidTagData(tag_id, current_offset(i)))
                    ELSE IF /\ ~Allows(i.allowed_errors, INVALID_TAG_ID_ERROR)
                            /\ spec_tag_type = "None"
                    THEN HdrErr(i, InvalidTagId(tag_id, current_offset(i)))
                    ELSE IF Panicked(j) THEN HdrErr(j, BaseErr)
                    ELSE IF /\ check_hierarchy
                            /\ j.has_determined_doc_path
                            /\ ~validate_tag_path(tag_id, j.tag_stack)
                    THEN HdrErr(j, HierarchyError(tag_id, current_parent_id(j)))
                    ELSE IF ~SizeFits(v.value, v.length)
                    THEN HdrErr(Panic(j, OutOfModel), BaseErr)
                    ELSE IF /\ ~Allows(j.allowed_errors, OVERSIZED_CHILD_ERROR)
                            /\ size.known
                            /\ is_invalid_tag_size(j, p.id_len + v.length + size.value)
                    THEN HdrErr(j, OversizedChildElement(current_offset(j), tag_id, size.value))
                    ELSE HdrOk(j, tag_id, spec_tag_type, size, p.id_len + v.length)
                vint(v) ==
                    sized(v, EBMLSize_new(v.value, v.length),
                          IF check_hierarchy THEN determine_doc_path(i, tag_id) ELSE i)
            IN  vint(read_vint(BufSlice(i, vstart, Min(vstart + 8, i.capacity))))
        data(i1) == header(i1, peek_tag_id(i1))
    IN  data(ensure_data_read(i0, 16).it)

\* TagIterator::read_valid_tag_header
read_valid_tag_header(i0) ==
    LET consumed(h) ==
            IF ~h.ok THEN h
            ELSE [h EXCEPT !.it.internal_buffer_position = @ + h.header_len]
    IN  consumed(peek_valid_tag_header(i0))

\* TagIterator::ensure_capacity
ensure_capacity(i, required_capacity) ==
    [i EXCEPT !.capacity = Max(@, required_capacity)]

\* read_tag_data that takes the bytes without looking at the result of
\* ensure_data_read
read_tag_data_unchecked(i0, size) ==
    LET taken(r) ==
            [it |-> [r.it EXCEPT !.internal_buffer_position = @ + size],
             some |-> TRUE,
             data |-> BufSlice(r.it, r.it.internal_buffer_position,
                               r.it.internal_buffer_position + size)]
    IN  taken(ensure_data_read(ensure_capacity(i0, size), size))

\* TagIterator::read_tag_data
read_tag_data(i0, size) ==
    LET taken(r) ==
            IF ~r.ok THEN [it |-> r.it, some |-> FALSE, data |-> <<>>]
            ELSE [it |-> [r.it EXCEPT !.internal_buffer_position = @ + size],
                  some |-> TRUE,
                  data |-> BufSlice(r.it, r.it.internal_buffer_position,
                                    r.it.internal_buffer_position + size)]
    IN  taken(ensure_data_read(ensure_capacity(i0, size), size))

\* String::from_utf8(data).is_ok(): the bytes outside 128..191 are the first
\* bytes of the encoded characters; the first byte of the data is one, each is
\* followed by the continuation bytes its range asks for, and after them comes
\* the end of the data or the first byte of the next character
Utf8Len(b) ==
    IF b < 128 THEN 1 ELSE IF b \in 194..223 THEN 2 ELSE IF b \in 224..239 THEN 3
    ELSE IF b \in 240..244 THEN 4 ELSE 0
Utf8Second(b) ==
    CASE b = 224 -> 160..191 [] b = 237 -> 128..159 [] b = 240 -> 144..191
      [] b = 244 -> 128..143 [] OTHER -> 128..191
IsUtf8(s) ==
    /\ s # <<>> => s[1] \notin 128..191
    /\ \A k \in DOMAIN s :
           s[k] \notin 128..191 =>
               LET l == Utf8Len(s[k])
               IN  /\ l > 0
                   /\ k + l - 1 <= Len(s)
                   /\ l >= 2 => s[k + 1] \in Utf8Second(s[k])
                   /\ \A j \in (k + 2)..(k + l - 1) : s[j] \in 128..191
                   /\ k + l <= Len(s) => s[k + l] \notin 128..191

\* tools::arr_to_u64
arr_to_u64(arr) ==
    IF Len(arr) > 8 THEN ErrBytes("ReadU64Overflow") ELSE OkBytes(Low8(arr))

\* a call that panics instead of returning a Result
Panics(msg) == [ok |-> FALSE, bytes |-> <<>>, err |-> "none", panic |-> msg]
HasPanicked(r) == "panic" \in DOMAIN r

\* tools::arr_to_i64, the i64 as its 8 bytes: arr[0] is read before anything
\* else of a slice of at most 8 bytes; a first byte above 127 gives the
\* bytes themselves (length 8) or -((1 << (len * 8)) - arr_to_u64(arr)), which
\* is arr extended with 0xFF bytes
arr_to_i64(arr) ==
    IF Len(arr) > 8 THEN ErrBytes("ReadI64Overflow")
    ELSE IF arr = <<>> THEN Panics("index out of bounds")
    ELSE IF arr[1] > 127
    THEN IF Len(arr) = 8 THEN OkBytes(arr) ELSE OkBytes(Repeat(255, 8 - Len(arr)) \o arr)
    ELSE OkBytes(arr_to_u64(arr).bytes)

\* f32 as f64, on the bytes of the two formats, for zeros, normal numbers,
\* infinities and quiet NaNs: the exponent is rebiased by 1023 - 127 and the
\* 23 bits of the fraction become the upper bits of the 52
F32AsF64(b) ==
    LET sign == b[1] \div 128
        exp8 == (b[1] % 128) * 2 + b[2] \div 128
        mant == (b[2] % 128) * 65536 + b[3] * 256 + b[4]
        exp11 == IF exp8 = 0 THEN 0 ELSE IF exp8 = 255 THEN 2047 ELSE exp8 + 896
    IN  <<sign * 128 + exp11 \div 16, (exp11 % 16) * 16 + mant \div 524288,
          (mant \div 2048) % 256, (mant \div 8) % 256, (mant % 8) * 32, 0, 0, 0>>

\* tools::arr_to_f64, the f64 as its 8 bytes
arr_to_f64(arr) ==
    IF Len(arr) = 4 THEN OkBytes(F32AsF64(arr))
    ELSE IF Len(arr) = 8 THEN OkBytes(arr)
    ELSE ErrBytes("ReadF64Mismatch")

\* the result of read_tag and read_tag_checked
NoPT == ProcessingTag(NoTag, Unknown, 0, 0)
TagErr(i, err) == [it |-> i, some |-> TRUE, ok |-> FALSE, err |-> err, pt |-> NoPT]
TagOk(i, pt) == [it |-> i, some |-> TRUE, ok |-> TRUE, err |-> BaseErr, pt |-> pt]
TagNone(i) == [it |-> i, some |-> FALSE, ok |-> FALSE, err |-> BaseErr, pt |-> NoPT]

\* partial_data of UnexpectedEOF: buffer[internal_buffer_position..], given as
\* its written bytes and the number of untouched zero bytes after them
PartialData(i) ==
    [data |-> SubSeq(i.buffer, i.internal_buffer_position + 1, Len(i.buffer)),
     zeros |-> i.capacity - Max(i.internal_buffer_position, Len(i.buffer))]

\* the match of read_tag that builds the tag from its type and raw_data
build_tag(i, tag_id, spec_tag_type, size, tag_start, data_start, raw_data) ==
    LET done(tag) == TagOk(i, ProcessingTag(tag, size, tag_start, data_start))
    IN  CASE spec_tag_type = "Master" -> done(MasterTag(tag_id, "Start"))
          [] spec_tag_type = "UnsignedInt" ->
                IF arr_to_u64(raw_data).ok THEN done(PrimTag(tag_id, arr_to_u64(raw_data).bytes))
                ELSE TagErr(i, CorruptedTagData(tag_id, arr_to_u64(raw_data).err))
          [] spec_tag_type = "Integer" ->
                IF HasPanicked(arr_to_i64(raw_data))
                THEN TagErr(Panic(i, arr_to_i64(raw_data).panic), BaseErr)
                ELSE IF arr_to_i64(raw_data).ok
                THEN done(PrimTag(tag_id, arr_to_i64(raw_data).bytes))
                ELSE TagErr(i, CorruptedTagData(tag_id, arr_to_i64(raw_data).err))
          [] spec_tag_type = "Utf8" ->
                IF IsUtf8(raw_data) THEN done(PrimTag(tag_id, raw_data))
                ELSE TagErr(i, CorruptedTagData(tag_id, "FromUtf8Error"))
          [] spec_tag_type = "Binary" -> done(PrimTag(tag_id, raw_data))
          [] spec_tag_type = "Float" ->
                IF arr_to_f64(raw_data).ok THEN done(PrimTag(tag_id, arr_to_f64(raw_data).bytes))
                ELSE TagErr(i, CorruptedTagData(tag_id, arr_to_f64(raw_data).err))
          [] OTHER -> done(RawTag(tag_id, raw_data))

\* TagIterator::read_tag, without the log
read_tag_inner(i0) ==
    LET tag_start == current_offset(i0)
        body(h) ==
            LET i == h.it
                data_start == current_offset(h.it)
                data(d) ==
                    IF Panicked(i) \/ ~h.ok THEN TagErr(i, h.err)
                    ELSE IF h.type = "Master"
                    THEN build_tag(i, h.tag_id, h.type, h.size, tag_start, data_start, <<>>)
                    ELSE IF ~h.size.known THEN TagErr(i, InvalidTagData(h.tag_id, tag_start))
                    ELSE IF Panicked(d.it) THEN TagErr(d.it, BaseErr)
                    ELSE IF ~d.some
                    THEN TagErr(d.it, UnexpectedEOF(tag_start, Some(h.tag_id),
                                                    Some(h.size.value),
                                                    Some(PartialData(d.it))))
                    ELSE build_tag(d.it, h.tag_id, h.type, h.size, tag_start, data_start,
                                   d.data)
            IN  data(read_tag_data(h.it, h.size.value))
    IN  body(read_valid_tag_header(i0))

\* TagIterator::read_tag.  log gets the offset and the stack the read started
\* from, the allowances, and the result.
read_tag(i0) ==
    LET logged(r) ==
            [r EXCEPT !.it.log =
                Append(@, [tag_start |-> current_offset(i0), stack |-> i0.tag_stack,
                           determined |-> i0.has_determined_doc_path,
                           allowed |-> i0.allowed_errors,
                           ok |-> r.ok, err |-> r.err, pt |-> r.pt,
                           panicked |-> Panicked(r.it)])]
    IN  logged(read_tag_inner(i0))

\* TagIterator::read_tag_checked
read_tag_checked(i0) ==
    LET at_end == i0.internal_buffer_position = i0.buffered_byte_length
        checked(r) ==
            LET i == IF at_end THEN r.it ELSE i0
            IN  IF at_end /\ ~r.ok THEN TagNone(i)
                ELSE IF i.internal_buffer_position > i.buffered_byte_length
                THEN TagErr(Panic(i, "read position exceeded buffer length"), BaseErr)
                ELSE read_tag(i)
    IN  checked(ensure_data_read(i0, 1))

\* Vec::drain(index..).rev() of the stack as queue items (index is 1-based)
RECURSIVE DrainRev(_, _)
DrainRev(stack, index) ==
    IF index > Len(stack) THEN <<>>
    ELSE Append(DrainRev(stack, index + 1),
                OkItem(stack[index].tag, stack[index].tag_start))

\* the while loop of read_next that closes unknown-size masters
RECURSIVE close_unknown(_, _)
close_unknown(i, next_id) ==
    IF /\ i.tag_stack # <<>>
       /\ ~i.tag_stack[Len(i.tag_stack)].size.known
       /\ PT_is_ended_by(i.tag_stack[Len(i.tag_stack)], next_id)
    THEN LET t == i.tag_stack[Len(i.tag_stack)]
         IN  close_unknown([i EXCEPT !.tag_stack = SubSeq(@, 1, Len(@) - 1),
                                     !.emission_queue = Append(@, OkItem(t.tag, t.tag_start))],
                           next_id)
    ELSE i

\* TagIterator::roll_up_children
RECURSIVE roll_children(_)
roll_children(children) ==
    IF children = <<>> THEN <<>>
    ELSE LET child == children[1]
             rest == Tail(children)
             ends == {k \in DOMAIN rest : as_master(rest[k]) = "End" /\ get_id(rest[k]) = get_id(child)}
             stop == IF ends = {} THEN Len(rest) + 1
                     ELSE CHOOSE k \in ends : \A m \in ends : k <= m
         IN  IF as_master(child) = "Start"
             THEN <<FullTag(get_id(child), roll_children(SubSeq(rest, 1, stop - 1)))>>
                  \o roll_children(SubSeq(rest, stop + 1, Len(rest)))
             ELSE <<child>> \o roll_children(rest)

roll_up_children(tag_id, children) == FullTag(tag_id, roll_children(children))

\* the index (1-based) of the first queue item at or after position that ends
\* the search of buffer_master: an error or the End of tag_id; 0 if there is none
EndTagSearch(queue, position, tag_id) ==
    LET hits == {k \in position..Len(queue) :
                    \/ ~queue[k].ok
                    \/ (get_id(queue[k].tag) = tag_id /\ as_master(queue[k].tag) = "End")}
    IN  IF hits = {} THEN 0 ELSE CHOOSE k \in hits : \A m \in hits : k <= m

\* the tail of buffer_master that hands on the children read before an error
buffer_master_split_keeping_children(i, tag_id, tag_start, pre_queue_len, found) ==
    LET kept == SubSeq(i.emission_queue, 1, pre_queue_len)
        remaining == SubSeq(i.emission_queue, found + 1, Len(i.emission_queue))
        rolled(children) ==
            roll_up_children(tag_id, [k \in DOMAIN children |-> children[k].tag])
    IN  IF i.emission_queue[found].ok
        THEN [i EXCEPT !.emission_queue =
                  Append(kept, OkItem(rolled(SubSeq(i.emission_queue, pre_queue_len + 1,
                                                    found - 1)),
                                      tag_start))
                  \o remaining]
        ELSE [i EXCEPT !.emission_queue = SubSeq(@, 1, found)]

\* the tail of buffer_master, from split_off on: found is the 1-based index of
\* the item the search stopped at
buffer_master_split(i, tag_id, tag_start, pre_queue_len, found) ==
    LET kept == SubSeq(i.emission_queue, 1, pre_queue_len)
        remaining == SubSeq(i.emission_queue, found + 1, Len(i.emission_queue))
        rolled(children) ==
            roll_up_children(tag_id, [k \in DOMAIN children |-> children[k].tag])
    IN  IF i.emission_queue[found].ok
        THEN [i EXCEPT !.emission_queue =
                  Append(kept, OkItem(rolled(SubSeq(i.emission_queue, pre_queue_len + 1,
                                                    found - 1)),
                                      tag_start))
                  \o remaining]
        ELSE [i EXCEPT !.emission_queue = Append(kept, i.emission_queue[found])]

RECURSIVE read_next(_)
RECURSIVE buffer_master_loop(_, _, _, _, _)

\* the loop 'endTagSearch of buffer_master; position is 0-based as in the code
buffer_master_loop(i0, tag_id, tag_start, pre_queue_len, position) ==
    LET need == position >= Len(i0.emission_queue)
        search(i, found) ==
            IF Panicked(i) THEN i
            ELSE IF need /\ position >= Len(i.emission_queue)
            THEN [i EXCEPT !.emission_queue =
                      Append(@, ErrItem(UnexpectedEOF(tag_start, Some(tag_id), None, None)))]
            ELSE IF found = 0
            THEN buffer_master_loop(i, tag_id, tag_start, pre_queue_len,
                                    Len(i.emission_queue))
            ELSE buffer_master_split(i, tag_id, tag_start, pre_queue_len, found)
        read(i) == search(i, EndTagSearch(i.emission_queue, position + 1, tag_id))
    IN  read(IF need THEN read_next(i0) ELSE i0)

\* TagIterator::buffer_master
buffer_master(i, tag_id) ==
    buffer_master_loop(i, tag_id, current_offset(i), Len(i.emission_queue),
                       Len(i.emission_queue))

\* the closing that starts at the innermost ended master
close_known_innermost(i) ==
    LET ended == {k \in DOMAIN i.tag_stack :
                     /\ i.tag_stack[k].size.known
                     /\ current_offset(i) >= i.tag_stack[k].data_start + i.tag_stack[k].size.value}
        index == CHOOSE k \in ended : \A m \in ended : k >= m
    IN  IF ended = {} THEN i
        ELSE [i EXCEPT !.emission_queue = @ \o DrainRev(i.tag_stack, index),
                       !.tag_stack = SubSeq(@, 1, index - 1)]

\* the first part of read_next: queue the ends of the masters whose known size
\* has been reached
close_known(i) ==
    LET ended == {k \in DOMAIN i.tag_stack :
                     /\ i.tag_stack[k].size.known
                     /\ current_offset(i) >= i.tag_stack[k].data_start + i.tag_stack[k].size.value}
        index == CHOOSE k \in ended : \A m \in ended : k <= m
    IN  IF ended = {} THEN i
        ELSE [i EXCEPT !.emission_queue = @ \o DrainRev(i.tag_stack, index),
                       !.tag_stack = SubSeq(@, 1, index - 1)]

\* the stack as queue items, first entry first
drain_stack_oldest_first(i) ==
    [i EXCEPT !.emission_queue =
                  @ \o [k \in DOMAIN i.tag_stack |->
                           OkItem(i.tag_stack[k].tag, i.tag_stack[k].tag_start)],
              !.tag_stack = <<>>]

\* while let Some(tag) = self.tag_stack.pop(): the stack as queue items, last first
drain_stack(i) ==
    [i EXCEPT !.emission_queue = @ \o DrainRev(i.tag_stack, 1), !.tag_stack = <<>>]

\* TagIterator::read_next
read_next(i0) ==
    LET tag(r) ==
            LET i == r.it
                tag_id == get_id(r.pt.tag)
                push(closed) ==
                    [closed EXCEPT !.tag_stack =
                        Append(@, ProcessingTag(MasterTag(tag_id, "End"), r.pt.size,
                                                r.pt.tag_start, r.pt.data_start))]
                emit(closed) ==
                    IF as_master(r.pt.tag) = "Start"
                    THEN IF tag_id \in i.tag_ids_to_buffer
                         THEN buffer_master(push(closed), tag_id)
                         ELSE [push(closed) EXCEPT
                                  !.emission_queue = Append(@, OkItem(r.pt.tag, r.pt.tag_start))]
                    ELSE [closed EXCEPT
                             !.emission_queue = Append(@, OkItem(r.pt.tag, r.pt.tag_start))]
            IN  IF Panicked(i) THEN i
                ELSE IF ~r.some THEN drain_stack(i)
                ELSE IF ~r.ok THEN [i EXCEPT !.emission_queue = Append(@, ErrItem(r.err))]
                ELSE emit(close_unknown(i, tag_id))
    IN  tag(read_tag_checked(close_known(i0)))

\* Iterator::next: the iterator afterwards and the item returned (None or Some)
next(i0) ==
    LET pop(i) ==
            IF Panicked(i) THEN [it |-> i, item |-> None]
            ELSE IF i.emission_queue = <<>> THEN [it |-> i, item |-> None]
            ELSE [it |-> [i EXCEPT !.emission_queue = Tail(@),
                                   !.last_emitted_tag_offset =
                                       IF i.emission_queue[1].ok THEN i.emission_queue[1].off
                                       ELSE @],
                  item |-> Some(i.emission_queue[1])]
    IN  pop(IF i0.emission_queue = <<>> THEN read_next(i0) ELSE i0)

\* the Result of try_recover
RecoverErr(i, err) == [it |-> i, ok |-> FALSE, err |-> err]
RecoverOk(i) == [it |-> i, ok |-> TRUE, err |-> BaseErr]

\* the loop of try_recover: one byte forward, until peek_valid_tag_header
\* accepts the header at the read position or no byte is left
RECURSIVE try_recover_loop(_)
try_recover_loop(i0) ==
    LET peeked(h) ==
            IF Panicked(h.it) THEN RecoverErr(h.it, BaseErr)
            ELSE IF h.ok THEN RecoverOk(h.it)
            ELSE try_recover_loop(h.it)
        step(r) ==
            IF Panicked(r.it) THEN RecoverErr(r.it, BaseErr)
            ELSE IF ~r.ok
            THEN RecoverErr(r.it, UnexpectedEOF(current_offset(r.it), None, None, None))
            ELSE peeked(peek_valid_tag_header(
                            [r.it EXCEPT !.internal_buffer_position = @ + 1]))
    IN  step(ensure_data_read(i0, 1))

\* try_recover without the adjustment of the sizes of the stack
try_recover_unadjusted(i0) == try_recover_loop(i0)

\* TagIterator::try_recover
try_recover(i0) ==
    LET original_position == current_offset(i0)
        grown(tag, diff) ==
            IF tag.size.known THEN [tag EXCEPT !.size = Known(@.value + diff)] ELSE tag
        adjusted(r) ==
            IF ~r.ok THEN r
            ELSE [r EXCEPT !.it.tag_stack =
                     [k \in DOMAIN @ |-> grown(@[k], current_offset(r.it) - original_position)]]
    IN  adjusted(try_recover_loop(i0))

\* TagIterator::allow_errors; errors is a set of AllowableErrors
allow_errors(i, errors) ==
    [i EXCEPT !.allowed_errors =
        (IF "InvalidTagIds" \in errors THEN INVALID_TAG_ID_ERROR ELSE 0)
        + (IF "HierarchyProblems" \in errors THEN INVALID_HIERARCHY_ERROR ELSE 0)
        + (IF "OversizedTags" \in errors THEN OVERSIZED_CHILD_ERROR ELSE 0)]

-----------------------------------------------------------------------------
(* tag_writer.rs.  A writer is a record of dest (the bytes the sink holds),
   open_tags and working_buffer; res is the Result of the last call. *)

WriteOk == [kind |-> "Ok", tag_id |-> <<>>, expected_id |-> None]
UnexpectedClosingTag(tag_id, expected_id) ==
    [kind |-> "UnexpectedClosingTag", tag_id |-> tag_id, expected_id |-> expected_id]
TagSizeError == [kind |-> "TagSizeError", tag_id |-> <<>>, expected_id |-> None]
TagIdError(id) == [kind |-> "TagIdError", tag_id |-> id, expected_id |-> None]

\* TagWriter::new
TagWriter_new(dest) ==
    [dest |-> dest, open_tags |-> <<>>, working_buffer |-> <<>>, res |-> WriteOk]

\* start_tag that records the start of the buffer as the start of the body
start_tag_at_zero(w, id) ==
    [w EXCEPT !.open_tags = Append(@, [id |-> id, size |-> Known(0)])]

\* TagWriter::start_tag
start_tag(w, id) ==
    [w EXCEPT !.open_tags = Append(@, [id |-> id, size |-> Known(Len(w.working_buffer))])]

\* end_tag that closes the innermost frame whatever its id
end_tag_any_id(w, id) ==
    IF w.open_tags = <<>> THEN [w EXCEPT !.res = UnexpectedClosingTag(id, None)]
    ELSE LET open_tag == w.open_tags[Len(w.open_tags)]
             w1 == [w EXCEPT !.open_tags = SubSeq(@, 1, Len(@) - 1)]
             start == open_tag.size.value
             size_vint == as_vint(U64(Len(w.working_buffer) - start))
         IN  IF ~open_tag.size.known THEN w1
             ELSE IF ~size_vint.ok THEN [w1 EXCEPT !.res = TagSizeError]
             ELSE [w1 EXCEPT !.working_buffer =
                       SubSeq(@, 1, start) \o open_tag.id \o size_vint.bytes
                           \o SubSeq(@, start + 1, Len(@))]

\* TagWriter::end_tag: the frame is popped before its id is compared
end_tag(w, id) ==
    IF w.open_tags = <<>> THEN [w EXCEPT !.res = UnexpectedClosingTag(id, None)]
    ELSE LET open_tag == w.open_tags[Len(w.open_tags)]
             w1 == [w EXCEPT !.open_tags = SubSeq(@, 1, Len(@) - 1)]
             start == open_tag.size.value
             size_vint == as_vint(U64(Len(w.working_buffer) - start))
         IN  IF open_tag.id # id
             THEN [w1 EXCEPT !.res = UnexpectedClosingTag(id, Some(open_tag.id))]
             ELSE IF ~open_tag.size.known THEN w1
             ELSE IF ~size_vint.ok THEN [w1 EXCEPT !.res = TagSizeError]
             ELSE [w1 EXCEPT !.working_buffer =
                       SubSeq(@, 1, start) \o open_tag.id \o size_vint.bytes
                           \o SubSeq(@, start + 1, Len(@))]

\* TagWriter::private_flush, into a sink that takes every byte
private_flush(w) ==
    [w EXCEPT !.dest = @ \o w.working_buffer, !.working_buffer = <<>>]

\* TagWriter::write_unsigned_int_tag: the narrowest of u8, u16, u32, u64
write_unsigned_int_tag(w, id, data) ==
    LET n == Len(SkipZeros(data))
        body == IF n <= 1 THEN <<129>> \o SubSeq(data, 8, 8)
                ELSE IF n <= 2 THEN <<130>> \o SubSeq(data, 7, 8)
                ELSE IF n <= 4 THEN <<132>> \o SubSeq(data, 5, 8)
                ELSE <<136>> \o data
    IN  [w EXCEPT !.working_buffer = @ \o id \o body]

\* TagWriter::write_utf8_tag
write_utf8_tag(w, id, data) ==
    LET size_vint == as_vint(U64(Len(data)))
    IN  IF ~size_vint.ok
        THEN [w EXCEPT !.working_buffer = @ \o id, !.res = TagSizeError]
        ELSE [w EXCEPT !.working_buffer = @ \o id \o size_vint.bytes \o data]

\* TagWriter::write_binary_tag
write_binary_tag(w, id, data) ==
    LET size_vint == as_vint(U64(Len(data)))
    IN  IF ~size_vint.ok
        THEN [w EXCEPT !.working_buffer = @ \o id, !.res = TagSizeError]
        ELSE [w EXCEPT !.working_buffer = @ \o id \o size_vint.bytes \o data]

RECURSIVE write_tag(_, _), write_children(_, _)

\* the children of a Master::Full written last first
write_children_reversed(w, children) ==
    IF children = <<>> \/ w.res # WriteOk THEN w
    ELSE write_children(write_tag(w, children[Len(children)]),
                        SubSeq(children, 1, Len(children) - 1))

\* the match of TagWriter::write on the data type of the tag; the children of
\* a Master::Full are written up to the first that fails
write_children(w, children) ==
    IF children = <<>> \/ w.res # WriteOk THEN w
    ELSE write_children(write_tag(w, children[1]), Tail(children))

\* write that drains the working buffer whatever frames are open
write_tag_always_flush(w0, tag) ==
    LET tag_id == get_id(tag)
        type == get_tag_data_type(tag_id)
        w == [w0 EXCEPT !.res = WriteOk]
        w1 == CASE type = "UnsignedInt" -> write_unsigned_int_tag(w, tag_id, tag.val)
                [] type = "Utf8" -> write_utf8_tag(w, tag_id, tag.val)
                [] type = "Binary" -> write_binary_tag(w, tag_id, tag.val)
                [] type = "Master" /\ tag.m = "Start" -> start_tag(w, tag_id)
                [] type = "Master" /\ tag.m = "End" -> end_tag(w, tag_id)
                [] type = "Master" /\ tag.m = "Full" ->
                      LET w2 == write_children(start_tag(w, tag_id), tag.children)
                      IN  IF w2.res # WriteOk THEN w2 ELSE end_tag(w2, tag_id)
    IN  IF w1.res # WriteOk THEN w1 ELSE private_flush(w1)

\* TagWriter::write: the match on the data type of the tag, then the test of
\* the open frames and private_flush
write_tag(w0, tag) ==
    LET tag_id == get_id(tag)
        type == get_tag_data_type(tag_id)
        w == [w0 EXCEPT !.res = WriteOk]
        w1 == CASE type = "UnsignedInt" -> write_unsigned_int_tag(w, tag_id, tag.val)
                [] type = "Utf8" -> write_utf8_tag(w, tag_id, tag.val)
                [] type = "Binary" -> write_binary_tag(w, tag_id, tag.val)
                [] type = "Master" /\ tag.m = "Start" -> start_tag(w, tag_id)
                [] type = "Master" /\ tag.m = "End" -> end_tag(w, tag_id)
                [] type = "Master" /\ tag.m = "Full" ->
                      LET w2 == write_children(start_tag(w, tag_id), tag.children)
                      IN  IF w2.res # WriteOk THEN w2 ELSE end_tag(w2, tag_id)
    IN  IF w1.res # WriteOk THEN w1
        ELSE IF \A k \in DOMAIN w1.open_tags : ~w1.open_tags[k].size.known
        THEN private_flush(w1)
        ELSE w1

\* TagWriter::write
write(w, tag) == write_tag(w, tag)

\* write_unknown_size with the one-byte all-ones size vint
write_unknown_size_short(w0, tag) ==
    LET tag_id == get_id(tag)
        w == [w0 EXCEPT !.res = WriteOk]
    IN  IF get_tag_data_type(tag_id) # "Master" THEN [w EXCEPT !.res = TagSizeError]
        ELSE [w EXCEPT !.working_buffer = @ \o tag_id \o <<255>>,
                       !.open_tags = Append(@, [id |-> tag_id, size |-> Unknown])]

\* TagWriter::write_unknown_size: the buffer is not handed to private_flush
write_unknown_size(w0, tag) ==
    LET tag_id == get_id(tag)
        w == [w0 EXCEPT !.res = WriteOk]
    IN  IF get_tag_data_type(tag_id) # "Master" THEN [w EXCEPT !.res = TagSizeError]
        ELSE [w EXCEPT !.working_buffer = @ \o tag_id \o <<1>> \o Repeat(255, 7),
                       !.open_tags = Append(@, [id |-> tag_id, size |-> Unknown])]

\* TagWriter::write_raw
write_raw(w0, tag_id, data) ==
    LET flushed(w1) ==
            IF w1.res # WriteOk THEN w1
            ELSE IF \A k \in DOMAIN w1.open_tags : ~w1.open_tags[k].size.known
            THEN private_flush(w1)
            ELSE w1
    IN  flushed(write_binary_tag([w0 EXCEPT !.res = WriteOk], tag_id, data))

\* the while loop of TagWriter::flush
RECURSIVE flush_loop(_)
flush_loop(w) ==
    LET ended(w1) == IF w1.res # WriteOk THEN w1 ELSE flush_loop(w1)
    IN  IF w.open_tags = <<>> THEN w
        ELSE ended(end_tag(w, w.open_tags[Len(w.open_tags)].id))

\* flush that drains the working buffer without closing the open frames
flush_without_ends(w0) == private_flush([w0 EXCEPT !.res = WriteOk])

\* TagWriter::flush
flush(w0) ==
    LET drained(w1) == IF w1.res # WriteOk THEN w1 ELSE private_flush(w1)
    IN  drained(flush_loop([w0 EXCEPT !.res = WriteOk]))

-----------------------------------------------------------------------------
(* The vint codec on its own: one value is encoded, then the encoding is read *)

\* the bytes tried as the most significant non-sign byte, and as the last byte
LeadBytes == {1, 2, 3, 4, 7, 8, 15, 16, 31, 32, 63, 64, 127, 128, 129, 191, 192, 255}
LastBytes == {0, 1, 254, 255}

\* 64-bit patterns around every power of two: a sign extension, a lead byte, a
\* fill of all zeros or all ones, and a last byte
VintValues ==
    { Repeat(ext, p - 1) \o <<lead>> \o Repeat(fill, 7 - p) \o <<last>> :
        ext \in {0, 255}, p \in 1..7, lead \in LeadBytes, fill \in {0, 255}, last \in LastBytes }
    \cup { Repeat(ext, 7) \o <<b>> : ext \in {0, 255}, b \in 0..255 }

NoVint == [op |-> "none", signed |-> FALSE, val |-> Zeros(8), enc |-> ErrBytes("none"),
           dec |-> VintNone]
NoWriter == [op |-> "none"]
NoIterator == [op |-> "none"]
NoObs == [op |-> "none"]

InitVint ==
    /\ vt \in {[NoVint EXCEPT !.op = "new", !.signed = sg, !.val = v] :
                  sg \in BOOLEAN, v \in VintValues}
    /\ wr = NoWriter
    /\ it = NoIterator
    /\ obs = NoObs

\* val.as_vint()
AsVint ==
    /\ vt.op = "new" /\ ~vt.signed
    /\ vt' = [vt EXCEPT !.op = "encoded", !.enc = as_vint(vt.val)]
    /\ UNCHANGED <<wr, it, obs>>

\* read_vint(&encoding)
ReadVint ==
    /\ vt.op = "encoded" /\ ~vt.signed /\ vt.enc.ok
    /\ vt' = [vt EXCEPT !.op = "decoded", !.dec = read_vint(vt.enc.bytes)]
    /\ UNCHANGED <<wr, it, obs>>

\* val.as_signed_vint()
AsSignedVint ==
    /\ vt.op = "new" /\ vt.signed
    /\ vt' = [vt EXCEPT !.op = "encoded", !.enc = as_signed_vint(vt.val)]
    /\ UNCHANGED <<wr, it, obs>>

\* read_signed_vint(&encoding)
ReadSignedVint ==
    /\ vt.op = "encoded" /\ vt.signed /\ vt.enc.ok
    /\ vt' = [vt EXCEPT !.op = "decoded", !.dec = read_signed_vint(vt.enc.bytes)]
    /\ UNCHANGED <<wr, it, obs>>

NextVint == AsVint \/ ReadVint \/ AsSignedVint \/ ReadSignedVint

SpecVint == InitVint /\ [][NextVint]_vars

\* v < 2^(7w) and -2^(7w-1) <= v < 2^(7w-1), on 64-bit values
FitsUnsigned(v, w) == U64Lt(v, Shl1(7 * w))
FitsSigned(v, w) == I64Ge(v, NegShl1(7 * w - 1)) /\ I64Lt(v, Shl1(7 * w - 1))

\* C5: for every v in [0, 2^56), read_vint(as_vint(v)) returns (v, w), where w
\* is the length of the encoding and the smallest width in 1..8 with v < 2^(7w).
C5_UnsignedVintRoundTrip ==
    (~vt.signed /\ FitsUnsigned(vt.val, 8)) =>
        /\ vt.op = "encoded" => vt.enc.ok
        /\ vt.op = "decoded" =>
              /\ vt.dec = VintSome(vt.val, Len(vt.enc.bytes))
              /\ Len(vt.enc.bytes) \in 1..8
              /\ FitsUnsigned(vt.val, Len(vt.enc.bytes))
              /\ \A w \in 1..(Len(vt.enc.bytes) - 1) : ~FitsUnsigned(vt.val, w)

\* a value of [2^49, 2^56) has been encoded in 8 bytes and read back
C5_Witness ==
    /\ vt.op = "decoded" /\ ~vt.signed
    /\ FitsUnsigned(vt.val, 8) /\ ~FitsUnsigned(vt.val, 7)
    /\ Len(vt.enc.bytes) = 8
    /\ vt.dec.res = "some" /\ vt.dec.value = vt.val

\* C6: for every v in [-2^55, 2^55), as_signed_vint(v) succeeds and
\* read_signed_vint of the result returns (v, w), where w is the smallest width
\* in 1..8 with -2^(7w-1) <= v < 2^(7w-1).
C6_SignedVintRoundTrip ==
    (vt.signed /\ FitsSigned(vt.val, 8)) =>
        /\ vt.op = "encoded" => vt.enc.ok
        /\ vt.op = "decoded" =>
              /\ vt.dec = VintSome(vt.val, Len(vt.enc.bytes))
              /\ Len(vt.enc.bytes) \in 1..8
              /\ FitsSigned(vt.val, Len(vt.enc.bytes))
              /\ \A w \in 1..(Len(vt.enc.bytes) - 1) : ~FitsSigned(vt.val, w)

\* the lower end of the range, -2^55, has been passed to as_signed_vint
C6_Witness ==
    /\ vt.op = "encoded" /\ vt.signed
    /\ vt.val = NegShl1(55)

-----------------------------------------------------------------------------
(* The reader on its own: a TagIterator over a Cursor of bytes *)

\* an element with a one-byte Known size, and a master with the one-byte
\* Unknown size 0xFF
Elem(id, body) == id \o <<128 + Len(body)>> \o body
ElemU(id, body) == id \o <<255>> \o body

\* the documents the streams are derived from
DocRoot ==
    Elem(Root, Elem(IntTag, <<42>>) \o Elem(String, <<104, 105>>)
               \o Elem(Parent, Elem(Child, <<5>>)) \o Elem(Void, <<>>))
DocRootU ==
    ElemU(Root, ElemU(Parent, Elem(Child, <<5>>) \o Elem(Child, <<6>>))
                \o Elem(IntTag, <<42>>) \o ElemU(Parent, Elem(Child, <<7>>)))
DocRootMix ==
    Elem(Root, ElemU(Parent, Elem(Child, <<5>>)) \o Elem(IntTag, <<42>>))
    \o ElemU(Root, Elem(Parent, Elem(Child, <<5>>) \o Elem(Crc32, <<42>>)))
DocSegment ==
    Elem(Ebml, <<>>)
    \o Elem(Segment, Elem(TrackType, <<42>>)
                     \o Elem(Cluster, Elem(Count, <<42>>) \o Elem(Block, <<16, 32>>)))
DocSegmentU ==
    ElemU(Segment, ElemU(Cluster, Elem(Count, <<42>>) \o Elem(Void, <<42>>))
                   \o ElemU(Cluster, Elem(SimpleBlock, <<16>>)))
    \o Elem(Ebml, <<>>)
DocLongUnknown ==
    Root \o <<1, 255, 255, 255, 255, 255, 255, 255>> \o Elem(IntTag, <<42>>)
\* tests/corrupt_data_tests.rs: get_data_with_hierarchy_problems,
\* get_data_with_invalid_ids, get_data_with_oversized_child
DocHierarchy == <<24, 83, 128, 103, 132, 65, 0, 129, 1>>
DocInvalidId == Elem(Segment, Elem(TrackType, <<42>>) \o Elem(<<242>>, <<42>>) \o Elem(TrackType, <<42>>))
DocOversized ==
    Elem(Segment, Elem(Cluster, Block \o <<134, 16, 32, 48, 64>>)) \o <<10, 10>>

\* a Parent inside a Parent, which the schema does not declare
DocNested ==
    Elem(Root, Elem(Parent, Elem(Parent, Elem(Child, <<5>>)) \o Elem(Child, <<6>>)))

Docs == {DocRoot, DocRootU, DocRootMix, DocSegment, DocSegmentU, DocLongUnknown,
         DocHierarchy, DocInvalidId, DocOversized, DocNested}

\* the bytes put in place of one byte of a document
SubstBytes == {0, 42, 128, 129, 236, 242, 255}

Prefixes(d) == {SubSeq(d, 1, n) : n \in 0..Len(d)}
Suffixes(d) == {SubSeq(d, n, Len(d)) : n \in 1..Len(d)}
Substitutions(d) == {[d EXCEPT ![n] = b] : n \in 1..Len(d), b \in SubstBytes}

\* every document, truncated, entered at a later offset, and with one byte changed
Streams == UNION {Prefixes(d) \cup Suffixes(d) \cup Substitutions(d) : d \in Docs}

\* the sets of ids given to TagIterator::new as tags_to_buffer, and the
\* documents read with them
BufferSets(d) ==
    IF d \in {DocRoot, DocRootU, DocRootMix} THEN {{Parent}, {Root, Parent}}
    ELSE IF d \in {DocSegment, DocSegmentU} THEN {{Cluster}, {Segment}}
    ELSE IF d = DocNested THEN {{Root}}
    ELSE {}

\* the arguments of TagIterator::new
ReaderInputs ==
    {<<s, {}>> : s \in Streams}
    \cup UNION {(Prefixes(d) \cup Suffixes(d) \cup Substitutions(d)) \X BufferSets(d) : d \in Docs}

\* the error lists given to allow_errors
ErrorLists == {{"InvalidTagIds"}, {"HierarchyProblems"}, {"OversizedTags"},
               {"InvalidTagIds", "HierarchyProblems", "OversizedTags"}}

\* next() is called at most MaxNones times after the first error or None
MaxErrors == 2
MaxNones == 2

\* obs: the items next() has returned, last_emitted_tag_offset() after each
\* call, the number of calls that returned None, and the calls of try_recover
NewObs == [op |-> "read", items |-> <<>>, offsets |-> <<>>, nones |-> 0,
           recoveries |-> <<>>]

ErrCount(items) == Cardinality({k \in DOMAIN items : ~items[k].ok})

Init ==
    /\ vt = NoVint
    /\ wr = NoWriter
    /\ it \in {TagIterator_new(in[1], in[2]) : in \in ReaderInputs}
    /\ obs = NewObs

\* reader.allow_errors(errors), before the first call of next()
AllowErrors ==
    /\ it.log = <<>> /\ obs = NewObs /\ it.allowed_errors = 0
    /\ \E errors \in ErrorLists : it' = allow_errors(it, errors)
    /\ UNCHANGED <<vt, wr, obs>>

\* reader.next()
NextItem ==
    /\ ~Panicked(it)
    /\ obs.nones < MaxNones
    /\ ErrCount(obs.items) < MaxErrors
    /\ LET r == next(it)
       IN  /\ it' = r.it
           /\ obs' = IF Panicked(r.it) THEN obs
                     ELSE [obs EXCEPT !.items = @ \o r.item,
                                      !.offsets = IF r.item = None THEN @
                                                  ELSE Append(@, r.it.last_emitted_tag_offset),
                                      !.nones = IF r.item = None THEN @ + 1 ELSE @]
    /\ UNCHANGED <<vt, wr>>

Next == AllowErrors \/ NextItem

Spec == Init /\ [][Next]_vars

-----------------------------------------------------------------------------
(* Reader with recovery: allow_errors, next() and try_recover() in any order,
   on the document of recover_on_global_element and on corrupted documents *)

\* tests/corrupt_data_tests.rs, recover_on_global_element: three bytes of junk
\* inserted at offset 10, the start of the body of Cluster
DocRecover ==
    Elem(Segment, Cluster \o <<134, 10, 10, 10>> \o Elem(Crc32, <<1>>) \o Elem(Count, <<1>>))

\* junk in front of an element that ends its Known-size parent, and junk inside
\* Unknown-size masters
DocJunk ==
    Elem(Root, Elem(Parent, Elem(Child, <<5>>)) \o <<10>> \o Elem(IntTag, <<42>>))
DocJunkU ==
    ElemU(Root, ElemU(Parent, <<10, 10>> \o Elem(Child, <<5>>)) \o Elem(IntTag, <<42>>))

\* a string that is not UTF-8 at the end of its Known-size parent
DocBadUtf8 == Elem(Root, Elem(String, <<255>>)) \o <<10>> \o Elem(IntTag, <<42>>)

RecoverDocs == {DocRecover, DocJunk, DocJunkU, DocInvalidId, DocOversized, DocBadUtf8}

RecoverBufferSets(d) ==
    IF d = DocRecover THEN {{}, {Cluster}}
    ELSE IF d \in {DocJunk, DocJunkU} THEN {{}, {Root}}
    ELSE {{}}

RecoverInputs ==
    UNION {(Prefixes(d) \cup Substitutions(d)) \X RecoverBufferSets(d) : d \in RecoverDocs}

MaxRecoveries == 1

InitRecover ==
    /\ vt = NoVint
    /\ wr = NoWriter
    /\ it \in {TagIterator_new(in[1], in[2]) : in \in RecoverInputs}
    /\ obs = NewObs

\* reader.try_recover().  The call is recorded with the number of items
\* returned and of reads made before it and the iterator before and after it.
TryRecover ==
    /\ ~Panicked(it)
    /\ Len(obs.recoveries) < MaxRecoveries
    /\ LET done(r) ==
               /\ it' = r.it
               /\ obs' = IF Panicked(r.it) THEN obs
                         ELSE [obs EXCEPT !.recoveries =
                                  Append(@, [items |-> Len(obs.items),
                                             reads |-> Len(it.log),
                                             before |-> [it EXCEPT !.log = <<>>],
                                             after |-> [r.it EXCEPT !.log = <<>>],
                                             ok |-> r.ok, err |-> r.err])]
       IN  done(try_recover(it))
    /\ UNCHANGED <<vt, wr>>

NextRecover == AllowErrors \/ NextItem \/ TryRecover

SpecRecover == InitRecover /\ [][NextRecover]_vars

-----------------------------------------------------------------------------
(* Claims about the reader *)

\* the Ok events among the items returned so far
RECURSIVE OkTags(_)
OkTags(items) ==
    IF items = <<>> THEN <<>>
    ELSE (IF items[1].ok THEN <<items[1].tag>> ELSE <<>>) \o OkTags(Tail(items))

\* the masters left open by a sequence of events, innermost last, as indices
\* into the sequence; bad is TRUE if some End did not close the innermost open
\* Start of the same id
RECURSIVE ScanMasters(_, _, _)
ScanMasters(tags, k, open) ==
    IF k > Len(tags) THEN [bad |-> FALSE, open |-> open]
    ELSE IF tags[k].m = "Start" THEN ScanMasters(tags, k + 1, Append(open, k))
    ELSE IF tags[k].m = "End"
    THEN IF open # <<>> /\ tags[open[Len(open)]].id = tags[k].id
         THEN ScanMasters(tags, k + 1, SubSeq(open, 1, Len(open) - 1))
         ELSE [bad |-> TRUE, open |-> open]
    ELSE ScanMasters(tags, k + 1, open)

\* C2: in the Ok events returned by next(), every Master::End closes the
\* innermost open Master::Start, which has the same id, and once next() has
\* returned None every Master::Start has been closed by its Master::End and the
\* open-master stack is empty.
C2_EmissionInvariants ==
    LET scan == ScanMasters(OkTags(obs.items), 1, <<>>)
    IN  /\ ~scan.bad
        /\ obs.nones >= 1 => (scan.open = <<>> /\ it.tag_stack = <<>>)

\* a stream with nested masters has been read to its end
C2_Witness ==
    /\ obs.nones >= 1
    /\ \E k \in DOMAIN obs.items : obs.items[k].ok /\ obs.items[k].tag.m = "End"
    /\ \E k \in DOMAIN obs.items : obs.items[k].ok /\ obs.items[k].tag.m = "Start"

\* the index of the Start that the End at index k closes, 0 if there is none
MatchingStart(tags, k) ==
    LET scan == ScanMasters(tags, 1, <<>>)
        before == ScanMasters(SubSeq(tags, 1, k - 1), 1, <<>>)
    IN  IF before.bad \/ before.open = <<>> THEN 0
        ELSE IF tags[before.open[Len(before.open)]].id = tags[k].id
        THEN before.open[Len(before.open)]
        ELSE 0

\* the stream holds the bytes of id at offset
IdAt(stream, offset, id) ==
    /\ offset + Len(id) <= Len(stream)
    /\ SubSeq(stream, offset + 1, offset + Len(id)) = id

\* C3: after every next() that returns an Ok event, last_emitted_tag_offset()
\* is the position in the stream of the first byte of the event's tag id (for
\* primitives, Master::Start and Master::Full), and for a Master::End it is the
\* offset reported for the corresponding Master::Start.
C3_OffsetContract ==
    \A k \in DOMAIN obs.items :
        obs.items[k].ok =>
            IF obs.items[k].tag.m = "End"
            THEN LET tags == [j \in 1..k |-> IF obs.items[j].ok THEN obs.items[j].tag ELSE NoTag]
                     start == MatchingStart(tags, k)
                 IN  start # 0 => obs.offsets[k] = obs.offsets[start]
            ELSE IdAt(it.source_data, obs.offsets[k], obs.items[k].tag.id)

\* a buffered master has been returned as Master::Full
C3_Witness ==
    \E k \in DOMAIN obs.items : obs.items[k].ok /\ obs.items[k].tag.m = "Full"

\* The header that the bytes of the stream hold at offset: complete is FALSE if
\* the stream ends before the end of the id or of the size vint, or if the size
\* vint is malformed.
NoHeader == [complete |-> FALSE, id |-> <<>>, type |-> "None", value |-> Zeros(8),
             vlen |-> 0, header_len |-> 0]
StreamHeader(stream, offset) ==
    LET rest == SubSeq(stream, offset + 1, Len(stream))
        id_len == IF rest[1] = 0 THEN 1 ELSE 8 - ilog2(rest[1])
        id == IF rest[1] = 0 THEN <<>> ELSE SubSeq(rest, 1, id_len)
        v == read_vint(SubSeq(rest, id_len + 1, Min(id_len + 8, Len(rest))))
    IN  IF rest = <<>> THEN NoHeader
        ELSE IF id_len > Len(rest) \/ v.res # "some" THEN NoHeader
        ELSE [complete |-> TRUE, id |-> id, type |-> get_tag_data_type(id),
              value |-> v.value, vlen |-> v.length, header_len |-> id_len + v.length]

HeaderKnown(h) == h.complete /\ h.value # AllOnes(h.vlen)
HeaderFits(h) == HeaderKnown(h) /\ U64Lt(h.value, Shl1(MaxSizeBits))

\* the element that starts at offset with header h ends after the end of some
\* Known-size master of the stack
EndsBeyond(stack, offset, h) ==
    \E k \in DOMAIN stack :
        /\ stack[k].size.known
        /\ \/ ~HeaderFits(h)
           \/ stack[k].data_start + stack[k].size.value
                  < offset + h.header_len + SizeToNat(h.value)

\* the checks of a header that come before the size containment check
PassesEarlierChecks(e, h) ==
    /\ ~(h.type \in {"UnsignedInt", "Integer", "Float"} /\ U64Lt(U64(8), h.value))
    /\ h.type = "None" => Allows(e.allowed, INVALID_TAG_ID_ERROR)
    /\ (h.type # "None" /\ ~Allows(e.allowed, INVALID_HIERARCHY_ERROR) /\ e.determined)
           => validate_tag_path(h.id, e.stack)

\* no Known-size element is read successfully that ends beyond an open Known-size master
NoOversizedEmitted(e) ==
    (~Allows(e.allowed, OVERSIZED_CHILD_ERROR) /\ e.ok /\ e.pt.size.known) =>
        \A k \in DOMAIN e.stack :
            e.stack[k].size.known =>
                e.pt.data_start + e.pt.size.value
                    <= e.stack[k].data_start + e.stack[k].size.value

NeverOversizedErrorWhenAllowed(e) ==
    Allows(e.allowed, OVERSIZED_CHILD_ERROR) => e.err.kind # "OversizedChildElement"

\* C4 as stated: without the OversizedTags allowance no Known-size element is
\* emitted that ends beyond the end of a Known-size master open when it is read;
\* every header of such an element yields OversizedChildElement; with the
\* allowance that error is never returned.
C4_Original ==
    \A n \in DOMAIN it.log :
        LET e == it.log[n]
            h == StreamHeader(it.source_data, e.tag_start)
        IN  /\ NoOversizedEmitted(e)
            /\ (/\ ~Allows(e.allowed, OVERSIZED_CHILD_ERROR)
                /\ HeaderFits(h)
                /\ EndsBeyond(e.stack, e.tag_start, h))
                  => (~e.ok /\ e.err.kind = "OversizedChildElement")
            /\ NeverOversizedErrorWhenAllowed(e)

\* C4: as C4_Original, but a header of such an element yields
\* OversizedChildElement only if it passes the checks made before the size
\* containment check: a scalar's size is at most 8, the id is in the schema or
\* InvalidTagIds is allowed, the path is valid or HierarchyProblems is allowed.
\* The error carries the offset, the id and the size of the header.
C4_SizeContainment ==
    \A n \in DOMAIN it.log :
        LET e == it.log[n]
            h == StreamHeader(it.source_data, e.tag_start)
        IN  /\ NoOversizedEmitted(e)
            /\ (/\ ~Allows(e.allowed, OVERSIZED_CHILD_ERROR)
                /\ HeaderFits(h)
                /\ PassesEarlierChecks(e, h)
                /\ EndsBeyond(e.stack, e.tag_start, h))
                  => (/\ ~e.ok
                      /\ e.err = OversizedChildElement(e.tag_start, h.id, SizeToNat(h.value)))
            /\ NeverOversizedErrorWhenAllowed(e)

\* a header has been refused with OversizedChildElement
C4_Witness ==
    \E n \in DOMAIN it.log :
        /\ it.log[n].err.kind = "OversizedChildElement"
        /\ \E k \in DOMAIN it.log[n].stack : it.log[n].stack[k].size.known

\* the entries that an Ok read of tag_id closes: the Unknown-size entries at the
\* top of the stack that are ended by tag_id, innermost first
RECURSIVE EndedEntries(_, _)
EndedEntries(stack, tag_id) ==
    IF stack = <<>> THEN <<>>
    ELSE LET top == stack[Len(stack)]
         IN  IF top.size.known \/ ~is_ended_by(get_id(top.tag), tag_id) THEN <<>>
             ELSE <<top>> \o EndedEntries(SubSeq(stack, 1, Len(stack) - 1), tag_id)

\* the index in items of the event of the read e: the one Ok item that is not
\* an End and carries the tag and the offset of the read; 0 if not returned yet
EventIndex(items, e) ==
    LET hits == {k \in DOMAIN items :
                    items[k].ok /\ items[k].tag = e.pt.tag /\ items[k].off = e.tag_start}
    IN  IF hits = {} THEN 0 ELSE CHOOSE k \in hits : \A m \in hits : k <= m

\* the stack that the closing loop of read_next sees for the read e
StackAtRead(e) ==
    IF e.determined \/ Allows(e.allowed, INVALID_HIERARCHY_ERROR) THEN e.stack
    ELSE determine_doc_path([tag_stack |-> e.stack, has_determined_doc_path |-> FALSE,
                             panic |-> "none"], get_id(e.pt.tag)).tag_stack

\* C7 (empty buffering set): when a tag is read while the innermost open master
\* has Unknown size and is ended by the tag (the tag is an ancestor, a sibling or
\* a root element), the Master::End of that master, and of each next innermost
\* Unknown-size master the tag ends, is returned immediately before the tag's
\* own event, innermost first.
C7_UnknownSizeClosure ==
    it.tag_ids_to_buffer = {} =>
        \A n \in DOMAIN it.log :
            LET e == it.log[n]
                ended == EndedEntries(StackAtRead(e), get_id(e.pt.tag))
                k == EventIndex(obs.items, e)
            IN  (e.ok /\ k # 0) =>
                    /\ k > Len(ended)
                    /\ \A j \in DOMAIN ended :
                          /\ obs.items[k - Len(ended) + j - 1].ok
                          /\ obs.items[k - Len(ended) + j - 1].tag
                                 = MasterTag(get_id(ended[j].tag), "End")

\* a tag that ends two nested Unknown-size masters has been returned
C7_Witness ==
    /\ it.tag_ids_to_buffer = {}
    /\ \E n \in DOMAIN it.log :
          /\ it.log[n].ok
          /\ Len(EndedEntries(StackAtRead(it.log[n]), get_id(it.log[n].pt.tag))) >= 2
          /\ EventIndex(obs.items, it.log[n]) # 0

\* C7 for the stack entries that come from a Master::Start read from the stream
C7_ExceptSynthesized ==
    it.tag_ids_to_buffer = {} =>
        \A n \in DOMAIN it.log :
            LET e == it.log[n]
                ended == EndedEntries(StackAtRead(e), get_id(e.pt.tag))
                k == EventIndex(obs.items, e)
            IN  (e.ok /\ k # 0) =>
                    /\ k > Len(ended)
                    /\ \A j \in DOMAIN ended :
                          /\ obs.items[k - Len(ended) + j - 1].ok
                          /\ as_master(ended[j].tag) = "End" =>
                                obs.items[k - Len(ended) + j - 1].tag
                                    = MasterTag(get_id(ended[j].tag), "End")

\* the events next() returns until its first None, error or panic
RECURSIVE ReadAll(_)
ReadAll(i) ==
    LET r == next(i)
    IN  IF Panicked(r.it) THEN [tags |-> <<>>, end |-> "panic"]
        ELSE IF r.item = None THEN [tags |-> <<>>, end |-> "none"]
        ELSE IF ~r.item[1].ok THEN [tags |-> <<>>, end |-> "error"]
        ELSE [ReadAll(r.it) EXCEPT !.tags = <<r.item[1].tag>> \o @]

\* the index of the End that matches the Start at index k, by nesting depth;
\* Len(tags) + 1 if the Start is not closed
RECURSIVE MatchingEnd(_, _, _)
MatchingEnd(tags, k, depth) ==
    IF k > Len(tags) THEN k
    ELSE IF tags[k].m = "Start" THEN MatchingEnd(tags, k + 1, depth + 1)
    ELSE IF tags[k].m = "End"
    THEN IF depth = 0 THEN k ELSE MatchingEnd(tags, k + 1, depth - 1)
    ELSE MatchingEnd(tags, k + 1, depth)

\* every run Start ... matching End whose id is in ids replaced by one Full
\* whose children are the events of the run with every nested run collapsed
RECURSIVE Collapse(_, _)
Collapse(tags, ids) ==
    IF tags = <<>> THEN <<>>
    ELSE IF tags[1].m = "Start" /\ tags[1].id \in ids
    THEN LET end == MatchingEnd(tags, 2, 0)
         IN  <<FullTag(tags[1].id, Collapse(SubSeq(tags, 2, end - 1), MasterIds))>>
             \o Collapse(SubSeq(tags, end + 1, Len(tags)), ids)
    ELSE <<tags[1]>> \o Collapse(Tail(tags), ids)

\* the read of the same stream with the same allowances and an empty buffering set
Unbuffered == ReadAll([TagIterator_new(it.source_data, {}) EXCEPT
                          !.allowed_errors = it.allowed_errors])

LastIsError == obs.items # <<>> /\ ~obs.items[Len(obs.items)].ok

\* C8: for a stream that is read without error with an empty buffering set, the
\* events read with the buffering set S are the events read with the empty set
\* in which each outermost run Start(id in S) ... matching End is replaced by one
\* Full(children), children being the events of the run in source order with
\* every nested run collapsed into a Full; no error is returned and no Start or
\* End of a master of S.
C8_SubtreeBuffering ==
    (it.tag_ids_to_buffer # {} /\ (obs.nones >= 1 \/ LastIsError \/ Panicked(it))) =>
        (Unbuffered.end = "none" =>
            /\ ~LastIsError /\ ~Panicked(it)
            /\ OkTags(obs.items) = Collapse(Unbuffered.tags, it.tag_ids_to_buffer)
            /\ \A k \in DOMAIN obs.items :
                  ~(obs.items[k].tag.m \in {"Start", "End"}
                    /\ obs.items[k].tag.id \in it.tag_ids_to_buffer))

\* a stream with a nested master inside a buffered master has been read to its end
C8_Witness ==
    /\ obs.nones >= 1 /\ ~LastIsError
    /\ \E k \in DOMAIN obs.items :
          /\ obs.items[k].tag.m = "Full"
          /\ \E c \in DOMAIN obs.items[k].tag.children :
                obs.items[k].tag.children[c].m = "Full"

\* every End closes the innermost open Start and nothing is left open
WellNested(tags) ==
    LET scan == ScanMasters(tags, 1, <<>>) IN ~scan.bad /\ scan.open = <<>>

\* some master is opened inside a master of the same id
SameIdNesting(tags) ==
    \E k \in DOMAIN tags :
        /\ tags[k].m = "Start"
        /\ \E j \in (k + 1)..(MatchingEnd(tags, k + 1, 0) - 1) :
              tags[j].m = "Start" /\ tags[j].id = tags[k].id

\* C8 for the streams whose events with an empty buffering set are well nested
\* and have no master nested in a master of the same id
C8_ExceptSameIdNesting ==
    (it.tag_ids_to_buffer # {} /\ (obs.nones >= 1 \/ LastIsError \/ Panicked(it))) =>
        ((/\ Unbuffered.end = "none"
          /\ WellNested(Unbuffered.tags)
          /\ ~SameIdNesting(Unbuffered.tags)) =>
            /\ ~LastIsError /\ ~Panicked(it)
            /\ OkTags(obs.items) = Collapse(Unbuffered.tags, it.tag_ids_to_buffer))

\* bit flag of the allowance mask n
HasFlag(n, flag) == (n \div flag) % 2 = 1

\* the innermost entry of a stack, as an Option of its id
Innermost(stack) == IF stack = <<>> THEN None ELSE Some(get_id(stack[Len(stack)].tag))

\* the body of the element with header h at offset lies within the stream
BodyInStream(stream, offset, h) ==
    HeaderFits(h) /\ offset + h.header_len + SizeToNat(h.value) <= Len(stream)
BodyBytes(stream, offset, h) ==
    SubSeq(stream, offset + h.header_len + 1, offset + h.header_len + SizeToNat(h.value))

\* the header at the offset of the read e has an id of the schema whose path is
\* not valid against the stack
InvalidPath(e, h) ==
    h.complete /\ h.type # "None" /\ ~validate_tag_path(h.id, e.stack)

ScalarTooLong(h) ==
    h.type \in {"UnsignedInt", "Integer", "Float"} /\ U64Lt(U64(8), h.value)

\* C9 as stated: once the document path is determined, a tag whose id is in the
\* schema and whose path is not valid against the stack is not emitted and
\* next() returns HierarchyError with the tag's id and the id of the innermost
\* open master; with the HierarchyProblems allowance HierarchyError is never
\* returned and the tag is emitted.
C9_Original ==
    \A n \in DOMAIN it.log :
        LET e == it.log[n]
            h == StreamHeader(it.source_data, e.tag_start)
        IN  /\ (InvalidPath(e, h) /\ e.determined /\ ~HasFlag(e.allowed, INVALID_HIERARCHY_ERROR))
                  => (~e.ok /\ e.err = HierarchyError(h.id, Innermost(e.stack)))
            /\ HasFlag(e.allowed, INVALID_HIERARCHY_ERROR) => e.err.kind # "HierarchyError"
            /\ (InvalidPath(e, h) /\ HasFlag(e.allowed, INVALID_HIERARCHY_ERROR))
                  => (e.ok /\ get_id(e.pt.tag) = h.id)

\* C9: as C9_Original, but HierarchyError is returned only for a header whose
\* scalar size is at most 8 (a longer one yields InvalidTagData first), and with
\* the allowance the tag is emitted only if it passes the other checks: scalar
\* size, size containment (or OversizedTags allowed), a Known size and a
\* complete, well-formed body for a non-master.
C9_HierarchyCheck ==
    \A n \in DOMAIN it.log :
        LET e == it.log[n]
            h == StreamHeader(it.source_data, e.tag_start)
        IN  /\ (/\ InvalidPath(e, h) /\ e.determined
                /\ ~HasFlag(e.allowed, INVALID_HIERARCHY_ERROR)
                /\ ~ScalarTooLong(h))
                  => (~e.ok /\ e.err = HierarchyError(h.id, Innermost(e.stack)))
            /\ HasFlag(e.allowed, INVALID_HIERARCHY_ERROR) => e.err.kind # "HierarchyError"
            /\ (/\ InvalidPath(e, h) /\ HasFlag(e.allowed, INVALID_HIERARCHY_ERROR)
                /\ ~ScalarTooLong(h)
                /\ HeaderKnown(h) => HeaderFits(h)
                /\ HasFlag(e.allowed, OVERSIZED_CHILD_ERROR)
                       \/ ~(HeaderKnown(h) /\ EndsBeyond(e.stack, e.tag_start, h))
                /\ h.type # "Master" =>
                       /\ BodyInStream(it.source_data, e.tag_start, h)
                       /\ h.type = "Utf8" => IsUtf8(BodyBytes(it.source_data, e.tag_start, h)))
                  => (e.ok /\ get_id(e.pt.tag) = h.id)

\* HierarchyError has been returned for a tag read inside two open masters
C9_Witness ==
    \E n \in DOMAIN it.log :
        /\ it.log[n].err.kind = "HierarchyError"
        /\ Len(it.log[n].stack) >= 2
        /\ get_id(it.log[n].stack[1].tag) # get_id(it.log[n].stack[2].tag)

\* the header at the offset of the read e is complete and its id is not in the
\* schema
UnknownId(h) == h.complete /\ h.type = "None"

\* the read after the n-th starts right after the body of the header h
NextReadAfterBody(n, h) ==
    n < Len(it.log) =>
        it.log[n + 1].tag_start = it.log[n].tag_start + h.header_len + SizeToNat(h.value)

\* C10 as stated: an id that is not in the schema yields InvalidTagId with the
\* id and the offset of its first byte and no event; with the InvalidTagIds
\* allowance the element is emitted as the raw binary variant with its id and
\* its body bytes, it is not subject to the hierarchy check, and reading
\* continues after its body.
C10_Original ==
    \A n \in DOMAIN it.log :
        LET e == it.log[n]
            h == StreamHeader(it.source_data, e.tag_start)
        IN  /\ (UnknownId(h) /\ ~HasFlag(e.allowed, INVALID_TAG_ID_ERROR))
                  => (~e.ok /\ e.err = InvalidTagId(h.id, e.tag_start))
            /\ (UnknownId(h) /\ HasFlag(e.allowed, INVALID_TAG_ID_ERROR))
                  => /\ e.ok
                     /\ HeaderFits(h)
                     /\ e.pt.tag = RawTag(h.id, BodyBytes(it.source_data, e.tag_start, h))
                     /\ NextReadAfterBody(n, h)

\* C10: as C10_Original, but with the allowance the raw variant is emitted
\* only for a header of Known size that passes size containment (or
\* OversizedTags is allowed) and whose body lies within the stream; in no case
\* is HierarchyError returned for an id that is not in the schema.
C10_UnknownIds ==
    \A n \in DOMAIN it.log :
        LET e == it.log[n]
            h == StreamHeader(it.source_data, e.tag_start)
        IN  /\ (UnknownId(h) /\ ~HasFlag(e.allowed, INVALID_TAG_ID_ERROR))
                  => (~e.ok /\ e.err = InvalidTagId(h.id, e.tag_start))
            /\ UnknownId(h) => e.err.kind # "HierarchyError"
            /\ (/\ UnknownId(h) /\ HasFlag(e.allowed, INVALID_TAG_ID_ERROR)
                /\ BodyInStream(it.source_data, e.tag_start, h)
                /\ HasFlag(e.allowed, OVERSIZED_CHILD_ERROR) \/ ~EndsBeyond(e.stack, e.tag_start, h))
                  => /\ e.ok
                     /\ e.pt.tag = RawTag(h.id, BodyBytes(it.source_data, e.tag_start, h))
                     /\ NextReadAfterBody(n, h)

\* both cases have happened: an id outside the schema was emitted as the raw
\* variant inside an open master and another tag was read after it
C10_Witness ==
    \E n \in DOMAIN it.log :
        /\ n < Len(it.log)
        /\ it.log[n].ok /\ it.log[n].pt.tag.raw
        /\ it.log[n].stack # <<>>
        /\ HasFlag(it.log[n].allowed, INVALID_TAG_ID_ERROR)

-----------------------------------------------------------------------------
(* A document is written event by event and the bytes of the sink are read back *)

MaxEvents == 4

\* body lengths on both sides of the widest one-byte size
BodyLens == {0, 126, 127, 128}
IntValues == {U64(7), U64(300)}

\* the open masters of the writer as a document path
OpenPath(open_tags) ==
    [k \in DOMAIN open_tags |->
        ProcessingTag(MasterTag(open_tags[k].id, "End"), Known(0), 0, 0)]

\* the events that keep the document well nested and legal under the schema
LegalEvents(open_tags) ==
    LET tags == {MasterTag(id, "Start") : id \in {Root, Parent}}
                \cup {PrimTag(id, v) : id \in {IntTag, Child}, v \in IntValues}
                \cup {PrimTag(String, Repeat(97, l)) : l \in BodyLens}
                \cup {PrimTag(Void, Repeat(0, l)) : l \in {0, 127}}
    IN  {t \in tags : /\ validate_tag_path(get_id(t), OpenPath(open_tags))
                      /\ open_tags = <<>> => t.m = "Start"}
        \cup (IF open_tags = <<>> THEN {}
              ELSE {MasterTag(open_tags[Len(open_tags)].id, "End")})

InitRT ==
    /\ vt = NoVint
    /\ wr = [op |-> "write", w |-> TagWriter_new(<<>>), events |-> <<>>]
    /\ it = NoIterator
    /\ obs = NoObs

\* writer.write(&tag)
WriteEvent ==
    /\ it = NoIterator
    /\ Len(wr.events) < MaxEvents
    /\ \E tag \in LegalEvents(wr.w.open_tags) :
           wr' = [wr EXCEPT !.w = write(wr.w, tag), !.events = Append(@, tag)]
    /\ UNCHANGED <<vt, it, obs>>

\* TagIterator::new(Cursor::new(dest), &[]) once every master has been closed
OpenReader ==
    /\ it = NoIterator
    /\ wr.events # <<>> /\ wr.w.open_tags = <<>>
    /\ it' = TagIterator_new(wr.w.dest, {})
    /\ obs' = NewObs
    /\ UNCHANGED <<vt, wr>>

\* reader.next() on the written bytes
ReadBack == it # NoIterator /\ NextItem

NextRT == WriteEvent \/ OpenReader \/ ReadBack

SpecRT == InitRT /\ [][NextRT]_vars

\* C1: the events read back from the bytes of a well-nested, schema-legal
\* sequence of written events are the written events, each Ok, and once the
\* reader has returned None they are all of them.
C1_RoundTrip ==
    it # NoIterator =>
        /\ ~Panicked(it)
        /\ \A k \in DOMAIN obs.items : obs.items[k].ok
        /\ Len(obs.items) <= Len(wr.events)
        /\ OkTags(obs.items) = SubSeq(wr.events, 1, Len(obs.items))
        /\ obs.nones > 0 => Len(obs.items) = Len(wr.events)

\* a closed document that holds an element with a 127-byte body has been
\* written and the reader has returned the item at the place of that element
C1_Witness ==
    /\ it # NoIterator
    /\ \E k \in DOMAIN wr.events :
           Len(wr.events[k].val) = 127 /\ Len(obs.items) >= k

-----------------------------------------------------------------------------
(* Truncated bodies *)

\* the header h at the offset of the read e passes the checks of
\* peek_valid_tag_header
ValidHeader(e, h) ==
    /\ h.complete
    /\ PassesEarlierChecks(e, h)
    /\ HasFlag(e.allowed, OVERSIZED_CHILD_ERROR) \/ ~EndsBeyond(e.stack, e.tag_start, h)

\* the header h at the offset of the read e belongs to a non-master element of
\* Known size whose body the stream does not hold in full
TruncatedBody(e, h) ==
    /\ h.complete /\ h.type # "Master" /\ HeaderFits(h)
    /\ ~BodyInStream(it.source_data, e.tag_start, h)

\* the indices of the items that carry the error err
ErrorIndices(items, err) == {k \in DOMAIN items : ~items[k].ok /\ items[k].err = err}

\* C11: when the reads before it have all succeeded and the stream ends inside
\* the body of a non-master element with a valid header of Known size N, the
\* read of the element yields UnexpectedEOF with tag_start = the offset of the
\* element's id, tag_id = Some(id) and tag_size = Some(N); next() returns this
\* error once, every item it returned before is Ok, and with an empty buffering
\* set the event of every preceding element has been returned before it.
C11_TruncatedBody ==
    \A n \in DOMAIN it.log :
        LET e == it.log[n]
            h == StreamHeader(it.source_data, e.tag_start)
            at == ErrorIndices(obs.items, e.err)
        IN  (/\ TruncatedBody(e, h) /\ ValidHeader(e, h)
             /\ \A m \in 1..(n - 1) : it.log[m].ok)
                => /\ ~e.ok
                   /\ e.err.kind = "UnexpectedEOF"
                   /\ e.err.position = e.tag_start
                   /\ e.err.tag_id = Some(h.id)
                   /\ e.err.size = Some(SizeToNat(h.value))
                   /\ Cardinality(at) <= 1
                   /\ \A k \in at :
                          /\ \A j \in 1..(k - 1) : obs.items[j].ok
                          /\ it.tag_ids_to_buffer = {} =>
                                 \A m \in 1..(n - 1) :
                                     EventIndex(obs.items, it.log[m]) \in 1..(k - 1)

\* next() has returned Ok events and then the UnexpectedEOF of an element that
\* is truncated inside its body, and has been called again after that
C11_Witness ==
    \E n \in DOMAIN it.log :
        LET e == it.log[n]
            h == StreamHeader(it.source_data, e.tag_start)
            at == ErrorIndices(obs.items, e.err)
        IN  /\ n > 2
            /\ TruncatedBody(e, h) /\ ValidHeader(e, h)
            /\ \A m \in 1..(n - 1) : it.log[m].ok
            /\ h.value # Zeros(8)
            /\ \E k \in at : k > 2 /\ k < Len(obs.items)

-----------------------------------------------------------------------------
(* Recovery *)

\* the bytes the call rec of try_recover has moved the read position forward
Advance(rec) == current_offset(rec.after) - current_offset(rec.before)

\* the stack entry with its size increased by d if the size is Known
Grown(entry, d) ==
    IF entry.size.known THEN [entry EXCEPT !.size = Known(@.value + d)] ELSE entry

\* the call rec has left the stack as it was but for the Known sizes, which have
\* grown by the advance, and has left the emission queue as it was
OnlySizesAdjusted(rec) ==
    /\ Len(rec.after.tag_stack) = Len(rec.before.tag_stack)
    /\ \A k \in DOMAIN rec.before.tag_stack :
           rec.after.tag_stack[k] = Grown(rec.before.tag_stack[k], Advance(rec))
    /\ rec.after.emission_queue = rec.before.emission_queue

ProbeAt(rec, p) ==
    [tag_start |-> p, stack |-> rec.before.tag_stack,
     allowed |-> rec.before.allowed_errors,
     determined |-> rec.before.has_determined_doc_path]

\* the header the stream holds at offset p passes the validation of the call rec
ValidAt(rec, p) == ValidHeader(ProbeAt(rec, p), StreamHeader(it.source_data, p))

\* the first read after the call rec, if there has been one
ReadsAfter(rec) == {n \in DOMAIN it.log : n = rec.reads + 1}

\* C13: try_recover never moves the cursor backward; when it returns Ok it has
\* moved it forward by at least one byte, to the first later offset at which
\* the stream holds a header that passes validation, and the read that next()
\* then makes at that offset does not yield InvalidTagId, HierarchyError or
\* OversizedChildElement.
C13_RecoveryTarget ==
    \A n \in DOMAIN obs.recoveries :
        LET rec == obs.recoveries[n]
            from == current_offset(rec.before)
            to == current_offset(rec.after)
        IN  /\ to >= from
            /\ rec.ok =>
                   /\ to >= from + 1
                   /\ \A p \in (from + 1)..(to - 1) : ~ValidAt(rec, p)
                   /\ ValidAt(rec, to)
                   /\ \A m \in ReadsAfter(rec) :
                          /\ it.log[m].tag_start = to
                          /\ it.log[m].err.kind \notin {"InvalidTagId", "HierarchyError",
                                                        "OversizedChildElement"}

\* try_recover has returned Ok right after next() returned an error, at an
\* offset where the stream holds a valid header, and next() has read there
C13_Witness ==
    \E n \in DOMAIN obs.recoveries :
        LET rec == obs.recoveries[n]
        IN  /\ rec.ok
            /\ rec.items \in DOMAIN obs.items /\ ~obs.items[rec.items].ok
            /\ ValidAt(rec, current_offset(rec.after))
            /\ ReadsAfter(rec) # {}

\* try_recover has been called after the k-th item was returned and before the
\* j-th
RecoveredBetween(k, j) ==
    \E n \in DOMAIN obs.recoveries : obs.recoveries[n].items \in k..(j - 1)

\* C14: after next() returns an error, no later call of next() returns an Ok
\* event unless try_recover has been called in between.
C14_ErrorsOneShot ==
    \A k \in DOMAIN obs.items :
        \A j \in DOMAIN obs.items :
            (k < j /\ ~obs.items[k].ok /\ obs.items[j].ok) => RecoveredBetween(k, j)

\* next() has returned an error and has been called again, with no call of
\* try_recover
C14_Witness ==
    /\ obs.recoveries = <<>>
    /\ \E k \in DOMAIN obs.items : ~obs.items[k].ok /\ k < Len(obs.items) + obs.nones

-----------------------------------------------------------------------------
(* Writer: write, write_raw, write_unknown_size and flush in any order on one
   TagWriter over an empty sink.  wr.w is the writer, wr.prev the writer before
   the last call, wr.calls the calls made so far with their results. *)

MaxCalls == 4

\* the tags given to write: the envelopes of three masters, primitives whose
\* elements are 2, 127 and 128 bytes long, and Master::Full tags
WrittenMasters == {Root, Parent, Ebml}
WrittenPrimitives ==
    {PrimTag(IntTag, U64(42)), PrimTag(Child, U64(300)), PrimTag(String, <<104, 105>>),
     PrimTag(Void, <<>>), PrimTag(Void, Zeros(125)), PrimTag(Void, Zeros(126))}
WrittenFulls ==
    {FullTag(Ebml, <<>>),
     FullTag(Parent, <<PrimTag(Child, U64(5))>>),
     FullTag(Root, <<PrimTag(IntTag, U64(42)), FullTag(Parent, <<PrimTag(Child, U64(5))>>)>>),
     FullTag(Root, <<PrimTag(Void, Zeros(125))>>),
     FullTag(Root, <<MasterTag(Parent, "End")>>)}
WrittenTags ==
    {MasterTag(id, m) : id \in WrittenMasters, m \in {"Start", "End"}}
    \cup WrittenPrimitives \cup WrittenFulls

\* the arguments of write_raw and of write_unknown_size; the ids 0 and 0x8101
\* of write_raw are not id vints
RawTags == {RawTag(<<242>>, <<1, 2>>), RawTag(Void, <<>>),
            RawTag(<<>>, <<1, 2>>), RawTag(<<129, 1>>, <<>>)}
UnknownSizeTags == {MasterTag(Root, "Start"), MasterTag(Parent, "Start"),
                    PrimTag(IntTag, U64(42))}

Call(f, tag, w) == [f |-> f, tag |-> tag, res |-> w.res]

Called(w, f, tag) ==
    [wr EXCEPT !.prev = wr.w, !.w = w, !.calls = Append(@, Call(f, tag, w))]

InitWriter ==
    /\ vt = NoVint
    /\ it = NoIterator
    /\ obs = NoObs
    /\ wr = [op |-> "calls", w |-> TagWriter_new(<<>>), prev |-> TagWriter_new(<<>>),
             calls |-> <<>>]

\* writer.write(tag)
Write ==
    /\ Len(wr.calls) < MaxCalls
    /\ \E tag \in WrittenTags : wr' = Called(write(wr.w, tag), "write", tag)
    /\ UNCHANGED <<vt, it, obs>>

\* writer.write_raw(tag_id, data)
WriteRaw ==
    /\ Len(wr.calls) < MaxCalls
    /\ \E tag \in RawTags : wr' = Called(write_raw(wr.w, tag.id, tag.val), "write_raw", tag)
    /\ UNCHANGED <<vt, it, obs>>

\* writer.write_unknown_size(tag)
WriteUnknownSize ==
    /\ Len(wr.calls) < MaxCalls
    /\ \E tag \in UnknownSizeTags :
           wr' = Called(write_unknown_size(wr.w, tag), "write_unknown_size", tag)
    /\ UNCHANGED <<vt, it, obs>>

\* writer.flush()
Flush ==
    /\ Len(wr.calls) < MaxCalls
    /\ wr' = Called(flush(wr.w), "flush", NoTag)
    /\ UNCHANGED <<vt, it, obs>>

NextWriter == Write \/ WriteRaw \/ WriteUnknownSize \/ Flush

SpecWriter == InitWriter /\ [][NextWriter]_vars

\* the last call, and whether it was write(tag) with a tag of the envelope m
LastCall == wr.calls[Len(wr.calls)]
LastWas(f) == wr.calls # <<>> /\ LastCall.f = f
LastWrote(m) == LastWas("write") /\ LastCall.tag.m = m /\ LastCall.tag.id \in MasterIds

\* the id of the innermost open frame of a writer, as an Option
InnermostFrame(w) ==
    IF w.open_tags = <<>> THEN None ELSE Some(w.open_tags[Len(w.open_tags)].id)

\* C15: write(Master::End) for id X fails with UnexpectedClosingTag{X, Some(Y)}
\* when the innermost open frame has an id Y other than X, and with
\* UnexpectedClosingTag{X, None} when no frame is open; it succeeds only when
\* the innermost open frame has id X.
C15_MismatchedClose ==
    LastWrote("End") =>
        LET X == LastCall.tag.id
            expected == InnermostFrame(wr.prev)
        IN  /\ expected # Some(X) => wr.w.res = UnexpectedClosingTag(X, expected)
            /\ wr.w.res = WriteOk => expected = Some(X)
            /\ LastCall.res = wr.w.res

\* an End has failed on a frame of another id, and the last End has closed the
\* frame of its id
C15_Witness ==
    /\ LastWrote("End") /\ wr.w.res = WriteOk
    /\ \E k \in DOMAIN wr.calls :
           /\ wr.calls[k].f = "write" /\ wr.calls[k].tag.m = "End"
           /\ wr.calls[k].res.kind = "UnexpectedClosingTag"
           /\ wr.calls[k].res.expected_id # None

-----------------------------------------------------------------------------
(* The encoding the calls of a writer stand for, built frame by frame: every
   open frame collects the bytes of what is written inside it, and a closed
   Known-size frame becomes id, size vint, body in the frame around it. *)

\* the vint of n of the smallest width w with n < 2^(7w), for n < 2^28
NatBytes(v, w) == [k \in 1..w |-> (v \div Pow2(8 * (w - k))) % 256]
MinimalWidth(n) == CHOOSE w \in 1..4 : n < Pow2(7 * w) /\ \A v \in 1..(w - 1) : n >= Pow2(7 * v)
MinimalVint(n) == NatBytes(n + Pow2(7 * MinimalWidth(n)), MinimalWidth(n))

\* the element of a primitive or Master::Full tag
RECURSIVE RefElement(_), RefChildren(_)
RefElement(tag) ==
    IF tag.m = "Full"
    THEN tag.id \o MinimalVint(Len(RefChildren(tag.children))) \o RefChildren(tag.children)
    ELSE IF ~tag.raw /\ get_tag_data_type(tag.id) = "UnsignedInt"
    THEN LET n == Len(SkipZeros(tag.val))
             width == IF n <= 1 THEN 1 ELSE IF n <= 2 THEN 2 ELSE IF n <= 4 THEN 4 ELSE 8
         IN  tag.id \o MinimalVint(width) \o SubSeq(tag.val, 9 - width, 8)
    ELSE tag.id \o MinimalVint(Len(tag.val)) \o tag.val
RefChildren(children) ==
    IF children = <<>> THEN <<>>
    ELSE RefElement(children[1]) \o RefChildren(Tail(children))

\* bytes added to the innermost open frame, or to the output if none is open
RefEmit(r, bytes) ==
    IF r.frames = <<>> THEN [r EXCEPT !.out = @ \o bytes]
    ELSE [r EXCEPT !.frames[Len(r.frames)].body = @ \o bytes]

RefClose(r) ==
    LET frame == r.frames[Len(r.frames)]
        outer == [r EXCEPT !.frames = SubSeq(@, 1, Len(@) - 1)]
    IN  IF frame.known
        THEN RefEmit(outer, frame.id \o MinimalVint(Len(frame.body)) \o frame.body)
        ELSE RefEmit(outer, frame.body)

\* one successful call
RefCall(r, call) ==
    IF call.f = "write_unknown_size"
    THEN [RefEmit(r, call.tag.id \o <<1, 255, 255, 255, 255, 255, 255, 255>>) EXCEPT
              !.frames = Append(@, [id |-> call.tag.id, known |-> FALSE, body |-> <<>>])]
    ELSE IF call.f = "write" /\ call.tag.m = "Start"
    THEN [r EXCEPT !.frames = Append(@, [id |-> call.tag.id, known |-> TRUE, body |-> <<>>])]
    ELSE IF call.f = "write" /\ call.tag.m = "End" THEN RefClose(r)
    ELSE RefEmit(r, RefElement(call.tag))

RECURSIVE RefCloseAll(_)
RefCloseAll(r) == IF r.frames = <<>> THEN r ELSE RefCloseAll(RefClose(r))

RECURSIVE RefWriter(_)
RefWriter(calls) ==
    IF calls = <<>> THEN [frames |-> <<>>, out |-> <<>>]
    ELSE LET r == RefWriter(SubSeq(calls, 1, Len(calls) - 1))
             call == calls[Len(calls)]
         IN  IF call.f = "flush" THEN RefCloseAll(r) ELSE RefCall(r, call)

\* the output and the bodies of the open frames, outermost first
RECURSIVE RefBodies(_)
RefBodies(frames) ==
    IF frames = <<>> THEN <<>> ELSE frames[1].body \o RefBodies(Tail(frames))
RefTotal(r) == r.out \o RefBodies(r.frames)

\* the bytes a writer has produced: those in the sink, then the working buffer
Produced(w) == w.dest \o w.working_buffer

AllSucceeded == \A k \in DOMAIN wr.calls : wr.calls[k].res = WriteOk

\* C16: when every call has succeeded and the last one is the write of the
\* Master::End that closes a master opened with write(Master::Start), the bytes
\* produced are those produced before the Start, then the id, the minimal-width
\* vint of the body length and the body, the body being the bytes of everything
\* written between the Start and the End, headers of nested masters included.
C16_KnownSizeMasterEncoding ==
    (AllSucceeded /\ LastWrote("End")) =>
        LET before == RefWriter(SubSeq(wr.calls, 1, Len(wr.calls) - 1))
            frame == before.frames[Len(before.frames)]
            outer == [before EXCEPT !.frames = SubSeq(@, 1, Len(@) - 1)]
        IN  frame.known =>
                Produced(wr.w) = RefTotal(outer) \o frame.id \o MinimalVint(Len(frame.body))
                                     \o frame.body

\* the End of a master has been written whose body of 127 bytes or more holds
\* a nested master
C16_Witness ==
    /\ AllSucceeded /\ LastWrote("End")
    /\ LET before == RefWriter(SubSeq(wr.calls, 1, Len(wr.calls) - 1))
           frame == before.frames[Len(before.frames)]
       IN  /\ frame.known
           /\ Len(frame.body) >= 127
           /\ \E k \in DOMAIN wr.calls : wr.calls[k].tag.m = "Full"

-----------------------------------------------------------------------------
(* Full and its events *)

\* the events of a tag: a Master::Full as its Start, the events of its
\* children and its End; any other tag as itself
RECURSIVE Events(_), EventsOfAll(_)
Events(tag) ==
    IF tag.m = "Full"
    THEN <<MasterTag(tag.id, "Start")>> \o EventsOfAll(tag.children)
             \o <<MasterTag(tag.id, "End")>>
    ELSE <<tag>>
EventsOfAll(tags) ==
    IF tags = <<>> THEN <<>> ELSE Events(tags[1]) \o EventsOfAll(Tail(tags))

\* the writer after one call of write for each tag, up to the first that fails
RECURSIVE WriteAll(_, _)
WriteAll(w, tags) ==
    IF tags = <<>> THEN w
    ELSE LET w1 == write(w, tags[1])
         IN  IF w1.res # WriteOk THEN w1 ELSE WriteAll(w1, Tail(tags))

\* C17: from any writer state, write of a Master::Full leaves the sink, the
\* working buffer and the frame stack as the writes of its Start, of the events
\* of its children in order and of its End leave them, when these all succeed.
C17_FullIsStartChildrenEnd ==
    (LastWas("write") /\ LastCall.tag.m = "Full") =>
        LET separate == WriteAll(wr.prev, Events(LastCall.tag))
        IN  separate.res = WriteOk =>
                /\ wr.w.res = WriteOk
                /\ wr.w.dest = separate.dest
                /\ wr.w.working_buffer = separate.working_buffer
                /\ wr.w.open_tags = separate.open_tags

\* a Full with two children, one of them a Full, has been written while a
\* Known-size frame was open and bytes were waiting in the working buffer
C17_Witness ==
    /\ LastWas("write") /\ LastCall.tag.m = "Full" /\ wr.w.res = WriteOk
    /\ Len(LastCall.tag.children) = 2
    /\ \E k \in DOMAIN wr.prev.open_tags : wr.prev.open_tags[k].size.known
    /\ wr.prev.working_buffer # <<>>

-----------------------------------------------------------------------------
(* Flushing *)

NoKnownFrame(w) == \A k \in DOMAIN w.open_tags : ~w.open_tags[k].size.known

\* C18: after every successful call of write, write_raw or write_unknown_size,
\* if no Known-size frame is open then the working buffer is empty.
C18_FlushPolicy ==
    (/\ wr.calls # <<>>
     /\ LastCall.f \in {"write", "write_raw", "write_unknown_size"}
     /\ wr.w.res = WriteOk
     /\ NoKnownFrame(wr.w))
        => wr.w.working_buffer = <<>>

\* write_unknown_size has succeeded while no Known-size frame was open
C18_Witness ==
    /\ LastWas("write_unknown_size") /\ wr.w.res = WriteOk /\ NoKnownFrame(wr.w)
    /\ Len(wr.calls) > 1

\* the Master::End of every open frame of a writer, innermost first
RECURSIVE EndsOf(_)
EndsOf(open_tags) ==
    IF open_tags = <<>> THEN <<>>
    ELSE <<MasterTag(open_tags[Len(open_tags)].id, "End")>>
             \o EndsOf(SubSeq(open_tags, 1, Len(open_tags) - 1))

\* C19: flush leaves the writer as the writes of the Master::End of every open
\* frame, innermost first, followed by draining the working buffer leave it:
\* after a successful flush the frame stack and the working buffer are empty
\* and the sink holds the bytes that those writes produce, drained.
C19_ExplicitFlush ==
    LastWas("flush") =>
        LET separate == WriteAll([wr.prev EXCEPT !.res = WriteOk],
                                 EndsOf(wr.prev.open_tags))
        IN  wr.w.res = WriteOk =>
                /\ separate.res = WriteOk
                /\ wr.w.open_tags = <<>> /\ separate.open_tags = <<>>
                /\ wr.w.working_buffer = <<>>
                /\ wr.w.dest = separate.dest \o separate.working_buffer

\* flush has closed a Known-size frame with a body and a frame inside it
C19_Witness ==
    /\ LastWas("flush") /\ wr.w.res = WriteOk
    /\ Len(wr.prev.open_tags) >= 2
    /\ wr.prev.open_tags[1].size.known
    /\ Len(wr.prev.working_buffer) > wr.prev.open_tags[1].size.value

-----------------------------------------------------------------------------
(* Unknown-size masters *)

\* the 8-byte size vint whose payload bits are all ones
UnknownSizeMarker == <<1, 255, 255, 255, 255, 255, 255, 255>>

\* C20: write_unknown_size of a tag that is not a master returns TagSizeError
\* and leaves the frame stack, the working buffer and the sink as they were; of
\* a master it appends the id and the 8-byte all-ones size vint to the working
\* buffer and pushes an Unknown frame; the Master::End that later closes an
\* Unknown frame produces no bytes.
C20_UnknownSizeWrite ==
    /\ LastWas("write_unknown_size") =>
           IF get_tag_data_type(LastCall.tag.id) # "Master"
           THEN /\ wr.w.res = TagSizeError
                /\ wr.w.open_tags = wr.prev.open_tags
                /\ wr.w.working_buffer = wr.prev.working_buffer
                /\ wr.w.dest = wr.prev.dest
           ELSE /\ wr.w.res = WriteOk
                /\ wr.w.open_tags =
                       Append(wr.prev.open_tags, [id |-> LastCall.tag.id, size |-> Unknown])
                /\ wr.w.working_buffer =
                       wr.prev.working_buffer \o LastCall.tag.id \o UnknownSizeMarker
                /\ wr.w.dest = wr.prev.dest
    /\ (/\ LastWrote("End") /\ wr.w.res = WriteOk
        /\ ~wr.prev.open_tags[Len(wr.prev.open_tags)].size.known)
           => /\ Produced(wr.w) = Produced(wr.prev)
              /\ wr.w.open_tags = SubSeq(wr.prev.open_tags, 1, Len(wr.prev.open_tags) - 1)

\* write_unknown_size has failed for a tag that is not a master and has
\* succeeded for a master, and the End of the master has been written after a
\* tag inside it
C20_Witness ==
    /\ LastWrote("End") /\ wr.w.res = WriteOk
    /\ ~wr.prev.open_tags[Len(wr.prev.open_tags)].size.known
    /\ \E k \in DOMAIN wr.calls :
           wr.calls[k].f = "write_unknown_size" /\ wr.calls[k].res = TagSizeError
    /\ \E k \in DOMAIN wr.calls :
           /\ wr.calls[k].f = "write_unknown_size" /\ wr.calls[k].res = WriteOk
           /\ k + 1 < Len(wr.calls)

-----------------------------------------------------------------------------
(* Commit order *)

IsPrefix(a, b) == Len(a) <= Len(b) /\ SubSeq(b, 1, Len(a)) = a

\* the output once every open frame is closed, as the calls made so far stand
\* for it
FinalOutput(calls) == RefCloseAll(RefWriter(calls)).out

\* C21: a call changes the sink only by appending to it, and only when it
\* leaves no Known-size frame open; the start that a Known-size frame records
\* for its header lies inside the working buffer, so that back-patching the
\* header changes no committed byte; and when every call has succeeded the
\* sink holds a prefix of the encoding that the calls so far stand for, in the
\* order of the calls.
C21_CommitOrder ==
    wr.calls # <<>> =>
        /\ IsPrefix(wr.prev.dest, wr.w.dest)
        /\ wr.w.dest # wr.prev.dest => NoKnownFrame(wr.w)
        /\ \A k \in DOMAIN wr.w.open_tags :
               wr.w.open_tags[k].size.known =>
                   /\ wr.w.open_tags[k].size.value <= Len(wr.w.working_buffer)
                   /\ \A j \in 1..(k - 1) :
                          wr.w.open_tags[j].size.known =>
                              wr.w.open_tags[j].size.value <= wr.w.open_tags[k].size.value
        /\ AllSucceeded => IsPrefix(wr.w.dest, FinalOutput(wr.calls))

\* bytes are committed, then a Known-size frame is opened and a tag written
\* inside it, which stays in the working buffer, and the End of the frame
\* commits its back-patched header with the body
C21_Witness ==
    /\ AllSucceeded /\ LastWrote("End") /\ Len(wr.calls) = 4
    /\ wr.calls[2].f = "write" /\ wr.calls[2].tag.m = "Start"
    /\ wr.prev.dest # <<>> /\ wr.prev.working_buffer # <<>>
    /\ wr.prev.open_tags[1].size.known
    /\ wr.w.working_buffer = <<>>
    /\ Len(wr.w.dest) = Len(wr.prev.dest) + Len(wr.prev.working_buffer) + 2

-----------------------------------------------------------------------------
(* Ids given to write_raw *)

\* an id is a valid id vint when it has as many bytes as the zero bits in
\* front of the first set bit of its leading byte announce: 1 to 8
IsIdVint(id) == id # <<>> /\ Len(id) = 8 - ilog2(id[1])

\* C22: write_raw of an id that is not a valid id vint fails with
\* TagIdError(id) and adds no byte to the working buffer or the sink.
C22_InvalidIdOnWrite ==
    (LastWas("write_raw") /\ ~IsIdVint(LastCall.tag.id)) =>
        /\ wr.w.res = TagIdError(LastCall.tag.id)
        /\ Produced(wr.w) = Produced(wr.prev)

\* write_raw has been called with the id 0 and with an id of two bytes whose
\* leading byte announces one
C22_Witness ==
    /\ LastWas("write_raw") /\ ~IsIdVint(LastCall.tag.id)
    /\ \E k \in DOMAIN wr.calls : wr.calls[k].f = "write_raw" /\ wr.calls[k].tag.id = <<>>
    /\ \E k \in DOMAIN wr.calls : wr.calls[k].f = "write_raw" /\ wr.calls[k].tag.id = <<129, 1>>
    /\ \A id \in SpecIds \cup {<<242>>} : IsIdVint(id)

-----------------------------------------------------------------------------
(* nonblocking.rs: TagIteratorAsync, a TagIterator over a Cursor<Vec<u8>> that
   each call of next() extends with the bytes of one read of the async source.
   it is the inner iterator; obs holds the async source, the lengths of the
   reads made and what each call of next() has returned, as an Option. *)

\* TagIteratorAsync::new
TagIteratorAsync_new(tags_to_buffer) == TagIterator_new(<<>>, tags_to_buffer)

\* TagIteratorAsync::next, for a read that has put chunk in the staging buffer
TagIteratorAsync_next(iterator, chunk) ==
    next([iterator EXCEPT !.source_data = @ \o chunk])

\* the well-formed documents given to the async source, with their buffering sets
AsyncInputs ==
    {<<d, {}>> : d \in {DocRoot, DocRootU, DocSegment, DocSegmentU, DocLongUnknown}}
    \cup {<<DocRoot, {Parent}>>, <<DocSegment, {Cluster}>>}

\* calls of next() on one wrapper
MaxAsyncCalls == 10

\* the lengths a read of the source may have when left bytes are left: one
\* byte, three bytes, or all of them; 0 at the end of the source only
ReadLens(left) == IF left = 0 THEN {0} ELSE {1, Min(3, left), left}

NewAsyncObs(source, tags_to_buffer) ==
    [op |-> "async", source |-> source, tags_to_buffer |-> tags_to_buffer,
     reads |-> <<>>, results |-> <<>>]

InitAsync ==
    /\ vt = NoVint
    /\ wr = NoWriter
    /\ \E in \in AsyncInputs :
           /\ it = TagIteratorAsync_new(in[2])
           /\ obs = NewAsyncObs(in[1], in[2])

\* wrapper.next().await
AsyncNext ==
    /\ ~Panicked(it)
    /\ Len(obs.results) < MaxAsyncCalls
    /\ \E len \in ReadLens(Len(obs.source) - Len(it.source_data)) :
           LET taken == Len(it.source_data)
               r == TagIteratorAsync_next(it, SubSeq(obs.source, taken + 1, taken + len))
           IN  /\ it' = r.it
               /\ obs' = [obs EXCEPT !.reads = Append(@, len),
                                     !.results = IF Panicked(r.it) THEN @
                                                 ELSE Append(@, r.item)]
    /\ UNCHANGED <<vt, wr>>

NextAsync == AsyncNext

SpecAsync == InitAsync /\ [][NextAsync]_vars

-----------------------------------------------------------------------------
(* The wrapper against the synchronous reader *)

\* what n calls of next() return on a synchronous iterator, up to a panic
RECURSIVE SyncResults(_, _)
SyncResults(i, n) ==
    IF n = 0 THEN <<>>
    ELSE LET r == next(i)
         IN  IF Panicked(r.it) THEN <<>> ELSE <<r.item>> \o SyncResults(r.it, n - 1)

\* the synchronous reader of the whole source of the wrapper
SyncReader == TagIterator_new(obs.source, obs.tags_to_buffer)

\* C23: whatever the lengths of the reads of the async source, the calls of
\* next() on the wrapper have returned what as many calls of next() return on
\* the synchronous iterator over the whole stream with the same buffering set.
C23_AsyncWrapperEquivalence ==
    obs.results = SyncResults(SyncReader, Len(obs.results))

\* the wrapper has been called after reads of one byte, and the synchronous
\* reader returns the events of the whole document
C23_Witness ==
    /\ obs.source = DocRoot /\ obs.tags_to_buffer = {}
    /\ Len(obs.reads) >= 3 /\ \A k \in 1..3 : obs.reads[k] = 1
    /\ Len(obs.results) = Len(obs.reads)
    /\ \A k \in 1..3 : LET s == SyncResults(SyncReader, 3)[k]
                       IN  s # None /\ s[1].ok

-----------------------------------------------------------------------------
(* tag_iterator_async.rs: the TagIteratorAsync that reads the async source
   itself.  A reader is a record of read (the bytes of the source), read_pos
   (how many of them have been taken), buf, offset and tag_stack. *)

\* TagIteratorError::CorruptedFileData
CorruptedFileData(problem) == [BaseErr EXCEPT !.kind = "CorruptedFileData", !.problem = problem]

\* EbmlTag::get_parent_id of the tag: the innermost id of its path
get_parent_id(tag) ==
    LET path == get_path_by_tag(tag)
    IN  IF path = <<>> \/ path[Len(path)].k # "Id" THEN None ELSE Some(path[Len(path)].id)

\* TagIteratorAsync::new of tag_iterator_async.rs
NativeAsync_new(read) ==
    [read |-> read, read_pos |-> 0, buf |-> <<>>, offset |-> 0, tag_stack |-> <<>>]

\* TagIteratorAsync::advance
NativeAsync_advance(a, length) ==
    [a EXCEPT !.offset = @ + length, !.buf = SubSeq(@, length + 1, Len(@))]

\* TagIteratorAsync::ensure_data_read: buf is extended with zeros to len bytes
\* and read_exact fills the extension as far as the source has bytes
NativeAsync_ensure_data_read(a, len) ==
    LET size == Len(a.buf)
        remaining == len - size
        left == Len(a.read) - a.read_pos
        got == Min(remaining, left)
    IN  IF size >= len THEN [a |-> a, ok |-> TRUE]
        ELSE [a |-> [a EXCEPT !.buf = @ \o SubSeq(a.read, a.read_pos + 1, a.read_pos + got)
                                        \o Zeros(remaining - got),
                              !.read_pos = @ + got],
              ok |-> left >= remaining]

\* value + (1 << (7 * length)) as the bytes of an id
WithMarker(value, length) ==
    SkipZeros([value EXCEPT ![8 - ((7 * length) \div 8)] = OrBit(@, (7 * length) % 8)])

\* TagIteratorAsync::read_tag_id
NativeAsync_read_tag_id(a0) ==
    LET read(a) ==
            LET decoded(v) ==
                    IF v.res = "err"
                    THEN [a |-> a, ok |-> FALSE, err |-> CorruptedFileData("ReadVintOverflow"),
                          tag_id |-> <<>>]
                    ELSE IF v.res = "none"
                    THEN [a |-> a, ok |-> FALSE, err |-> CorruptedFileData("Expected tag id"),
                          tag_id |-> <<>>]
                    ELSE [a |-> NativeAsync_advance(a, v.length), ok |-> TRUE, err |-> BaseErr,
                          tag_id |-> WithMarker(v.value, v.length)]
            IN  decoded(read_vint(a.buf))
    IN  read(NativeAsync_ensure_data_read(a0, 8).a)

\* TagIteratorAsync::read_tag_size
NativeAsync_read_tag_size(a0) ==
    LET read(a) ==
            LET decoded(v) ==
                    IF v.res = "err"
                    THEN [a |-> a, ok |-> FALSE, err |-> CorruptedFileData("ReadVintOverflow"),
                          size |-> Unknown]
                    ELSE IF v.res = "none"
                    THEN [a |-> a, ok |-> FALSE, err |-> CorruptedFileData("Expected tag size"),
                          size |-> Unknown]
                    ELSE [a |-> NativeAsync_advance(a, v.length), ok |-> TRUE, err |-> BaseErr,
                          size |-> EBMLSize_new(v.value, v.length)]
            IN  decoded(read_vint(a.buf))
    IN  read(NativeAsync_ensure_data_read(a0, 8).a)

\* TagIteratorAsync::read_tag_data, with advance_get
NativeAsync_read_tag_data(a0, size) ==
    LET read(e) ==
            IF ~e.ok
            THEN [a |-> e.a, ok |-> FALSE, err |-> CorruptedFileData("reached end of file"),
                  data |-> <<>>]
            ELSE [a |-> NativeAsync_advance(e.a, size), ok |-> TRUE, err |-> BaseErr,
                  data |-> SubSeq(e.a.buf, 1, size)]
    IN  read(NativeAsync_ensure_data_read(a0, size))

\* the result of a call of next(): an Option of Ok(tag) or Err(err)
NativeOk(a, tag) == [a |-> a, item |-> Some([ok |-> TRUE, tag |-> tag, err |-> "none"])]
NativeErr(a, err) == [a |-> a, item |-> Some([ok |-> FALSE, tag |-> NoTag, err |-> err.kind])]
NativeNone(a) == [a |-> a, item |-> None]

\* TagIteratorAsync::read_tag
NativeAsync_read_tag(a0) ==
    LET with_id(h) ==
            LET with_size(s) ==
                    LET data_start == s.a.offset
                        with_data(d) ==
                            LET built(b) ==
                                    LET tag == b.pt.tag
                                        top == d.a.tag_stack[Len(d.a.tag_stack)]
                                        previous_tag_ended ==
                                            \/ PT_is_parent(top, h.tag_id)
                                            \/ PT_is_sibling(top, get_id(tag))
                                            \/ ~tag.raw /\ get_parent_id(tag) = None
                                    IN  IF ~b.ok THEN NativeErr(d.a, b.err)
                                        ELSE IF d.a.tag_stack = <<>> THEN NativeOk(d.a, tag)
                                        ELSE IF previous_tag_ended
                                        THEN NativeOk([d.a EXCEPT !.tag_stack[Len(d.a.tag_stack)] =
                                                          ProcessingTag(tag, s.size, 0, data_start)],
                                                      top.tag)
                                        ELSE NativeOk(d.a, tag)
                            IN  IF ~d.ok THEN NativeErr(d.a, d.err)
                                ELSE built(build_tag(d.a, h.tag_id, get_tag_data_type(h.tag_id),
                                                     s.size, 0, data_start, d.data))
                    IN  IF ~s.ok THEN NativeErr(s.a, s.err)
                        ELSE IF get_tag_data_type(h.tag_id) = "Master"
                        THEN NativeOk([s.a EXCEPT !.tag_stack =
                                          Append(@, ProcessingTag(MasterTag(h.tag_id, "End"),
                                                                  s.size, 0, data_start))],
                                      MasterTag(h.tag_id, "Start"))
                        ELSE IF ~s.size.known
                        THEN NativeErr(s.a, CorruptedFileData("Unknown size for primitive"))
                        ELSE with_data(NativeAsync_read_tag_data(s.a, s.size.value))
            IN  IF ~h.ok THEN NativeErr(h.a, h.err)
                ELSE with_size(NativeAsync_read_tag_size(h.a))
    IN  with_id(NativeAsync_read_tag_id(a0))

\* TagIteratorAsync::next of tag_iterator_async.rs
NativeAsync_next(a0) ==
    LET more(e) ==
            IF e.ok THEN NativeAsync_read_tag(e.a)
            ELSE IF e.a.tag_stack = <<>> THEN NativeNone(e.a)
            ELSE NativeOk([e.a EXCEPT !.tag_stack = SubSeq(@, 1, Len(@) - 1)],
                          e.a.tag_stack[Len(e.a.tag_stack)].tag)
        n == Len(a0.tag_stack)
    IN  IF /\ n > 0
           /\ a0.tag_stack[n].size.known
           /\ a0.offset >= a0.tag_stack[n].data_start + a0.tag_stack[n].size.value
        THEN NativeOk([a0 EXCEPT !.tag_stack = SubSeq(@, 1, n - 1)], a0.tag_stack[n].tag)
        ELSE more(NativeAsync_ensure_data_read(a0, 1))

-----------------------------------------------------------------------------
(* The native async reader on well-formed documents: it is the reader, obs the
   results of its calls of next() *)

\* documents without global elements: Known sizes only; an Unknown-size Parent
\* ended by a primitive of its parent; Unknown-size Clusters ended by a Cluster
\* and by a root master; masters open at the end of the stream
NativeRoot ==
    Elem(Root, Elem(IntTag, <<42>>) \o Elem(String, <<104, 105>>)
               \o Elem(Parent, Elem(Child, <<5>>)))
NativeRootU ==
    ElemU(Root, ElemU(Parent, Elem(Child, <<5>>)) \o Elem(IntTag, <<42>>))
NativeSegmentU ==
    ElemU(Segment, ElemU(Cluster, Elem(Count, <<42>>)) \o ElemU(Cluster, Elem(SimpleBlock, <<16>>)))
NativeBases == {<<>>, NativeRoot, NativeRootU, NativeSegmentU, DocRootU, DocSegment, DocLongUnknown}

\* what follows a base document: nothing, an empty root master, or a root
\* master whose last element has a body of seven bytes
NativeTails == {<<>>, Elem(Ebml, <<>>),
                Elem(Root, Elem(String, <<97, 98, 99, 100, 101, 102, 103>>)),
                ElemU(Root, Elem(String, <<97, 98, 99, 100, 101, 102, 103>>))}
NativeDocs == {d \o t : d \in NativeBases, t \in NativeTails}

\* calls of next() on one reader
MaxNativeCalls == 12

InitNative ==
    /\ vt = NoVint
    /\ wr = NoWriter
    /\ it \in {NativeAsync_new(d) : d \in NativeDocs}
    /\ obs = [op |-> "native", results |-> <<>>]

\* reader.next().await
NativeNext ==
    /\ Len(obs.results) < MaxNativeCalls
    /\ LET r == NativeAsync_next(it)
       IN  /\ it' = r.a
           /\ obs' = [obs EXCEPT !.results = Append(@, r.item)]
    /\ UNCHANGED <<vt, wr>>

NextNative == NativeNext

SpecNative == InitNative /\ [][NextNative]_vars

-----------------------------------------------------------------------------
(* The native async reader against the synchronous reader *)

\* an item of the synchronous reader as a result of the native reader
AsNativeResult(item) ==
    IF item = None THEN None
    ELSE Some([ok |-> item[1].ok,
               tag |-> IF item[1].ok THEN item[1].tag ELSE NoTag,
               err |-> item[1].err.kind])

\* what n calls of next() return on the synchronous iterator over the source
\* of the native reader, with an empty buffering set
SyncOfNative(n) ==
    LET sync == SyncResults(TagIterator_new(it.read, {}), n)
    IN  [k \in DOMAIN sync |-> AsNativeResult(sync[k])]

\* the synchronous reader returns events only, then None
SyncIsClean(n) ==
    LET sync == SyncOfNative(n)
    IN  /\ Len(sync) = n
        /\ \A k \in 1..n : sync[k] # None => sync[k][1].ok

-----------------------------------------------------------------------------
(* Reader over sources that yield short reads, with buffers of any capacity:
   TagIterator::with_capacity, then allow_errors and next() *)

\* the capacities given to with_capacity and the most bytes the source yields
\* in one read
Capacities == {0, 5, 16, 24, DEFAULT_BUFFER_LEN}
SourceChunks == {1, 3, WholeReads}

\* the documents, and three of them truncated, with their buffering sets
CapacityInputs ==
    {<<d, {}>> : d \in Docs \cup Prefixes(DocRoot) \cup Prefixes(DocSegmentU)
                        \cup Prefixes(DocLongUnknown)}
    \cup {<<DocRoot, {Parent}>>, <<DocRootU, {Root, Parent}>>, <<DocSegment, {Cluster}>>}

InitCapacity ==
    /\ vt = NoVint
    /\ wr = NoWriter
    /\ it \in {[with_capacity(in[1], in[2], capacity) EXCEPT !.source_chunk = chunk] :
                   in \in CapacityInputs, capacity \in Capacities, chunk \in SourceChunks}
    /\ obs = NewObs

SpecCapacity == InitCapacity /\ [][Next]_vars

\* the items of a sequence of results of next(), the None left out
RECURSIVE Concat(_)
Concat(results) == IF results = <<>> THEN <<>> ELSE results[1] \o Concat(Tail(results))

\* the reader of the same stream with the same buffering set and allowances,
\* the default capacity and a source that yields whole reads
ReferenceReader ==
    [TagIterator_new(it.source_data, it.tag_ids_to_buffer) EXCEPT
         !.allowed_errors = it.allowed_errors]

CallsMade == Len(obs.items) + obs.nones

\* C25: whatever the capacity given to with_capacity and however few bytes the
\* source yields in one read, the calls of next() have returned the items
\* that as many calls return on the reader of the same stream, buffering set
\* and allowances with the default capacity and whole reads; and the reader
\* does not panic where that reader does not.
C25_ReaderDeterminism ==
    /\ (~Panicked(it) /\ Len(SyncResults(ReferenceReader, CallsMade)) = CallsMade) =>
           obs.items = Concat(SyncResults(ReferenceReader, CallsMade))
    /\ Crashed(it) => Len(SyncResults(ReferenceReader, CallsMade + 1)) <= CallsMade

\* a reader with a capacity below the length of the stream, over a source that
\* yields one byte in a read, has returned the eight events of the document
\* and then None
C25_Witness ==
    /\ it.source_data = DocRoot /\ it.tag_ids_to_buffer = {}
    /\ it.capacity = 16 /\ it.capacity < Len(DocRoot) /\ it.source_chunk = 1
    /\ Len(obs.items) = 8 /\ obs.nones > 0
    /\ \A k \in 1..8 : obs.items[k].ok

-----------------------------------------------------------------------------
(* The stack synthesized from the path of the first tag *)

\* the stack and the flag the n-th read of the log left behind: what the next
\* read started from, or what the iterator holds now
StackAfter(n) == IF n < Len(it.log) THEN it.log[n + 1].stack ELSE it.tag_stack
DeterminedAfter(n) ==
    IF n < Len(it.log) THEN it.log[n + 1].determined ELSE it.has_determined_doc_path

\* the id in the header of a read of the log, None when no id was decoded
ReadId(e) == IF e.ok THEN Some(get_id(e.pt.tag)) ELSE e.err.tag_id

\* the header of the read went through the hierarchy block and its id has a
\* declared path without Global parts
IsAllIdRead(e) ==
    /\ ReadId(e) # None
    /\ get_tag_data_type(ReadId(e)[1]) # "None"
    /\ ~Allows(e.allowed, INVALID_HIERARCHY_ERROR)
    /\ e.err.kind \notin {"InvalidTagData", "InvalidTagId", "UnexpectedEOF"}
          \/ (e.err.kind = "UnexpectedEOF" /\ e.err.size # None)
    /\ \A k \in DOMAIN get_path_by_id(ReadId(e)[1]) : get_path_by_id(ReadId(e)[1])[k].k = "Id"

\* the entry read_next pushes for the master a read returned
PushedEntry(e) ==
    ProcessingTag(MasterTag(get_id(e.pt.tag), "End"), e.pt.size, e.pt.tag_start,
                  e.pt.data_start)

\* after is before with entries popped from its end and then at most the
\* master of the read pushed
PopsThenPush(before, after, e) ==
    \E m \in 0..Len(before) :
        \/ after = SubSeq(before, 1, m)
        \/ /\ e.ok /\ as_master(e.pt.tag) = "Start"
           /\ after = Append(SubSeq(before, 1, m), PushedEntry(e))

\* C26: the first read of a tag with an all-Id path while no document path has
\* been determined sets has_determined_doc_path and leaves the path of the tag
\* on the stack as Unknown-size entries, and that read is no HierarchyError;
\* the flag is set by such a read only and never goes back to false; every
\* other read changes the stack by pops and at most the push of the master it
\* read.
C26_StreamStartHeuristic ==
    \A n \in DOMAIN it.log :
        LET e == it.log[n]
        IN  ~e.panicked =>
              /\ e.determined => DeterminedAfter(n)
              /\ (e.determined \/ ~IsAllIdRead(e)) =>
                    /\ DeterminedAfter(n) = e.determined
                    /\ PopsThenPush(e.stack, StackAfter(n), e)
              /\ (~e.determined /\ IsAllIdRead(e)) =>
                    /\ DeterminedAfter(n)
                    /\ e.err.kind # "HierarchyError"
                    /\ PopsThenPush(SynthesizedStack(get_path_by_id(ReadId(e)[1])),
                                    StackAfter(n), e)
                    /\ n < Len(it.log) =>
                          IsPrefix(SynthesizedStack(get_path_by_id(ReadId(e)[1])),
                                   StackAfter(n))

\* the bytes of DocSegment from the header of Cluster on have been read to the
\* end: the first read found the stack empty and put Segment on it, and every
\* item is Ok
C26_Witness ==
    /\ it.source_data = Elem(Cluster, Elem(Count, <<42>>) \o Elem(Block, <<16, 32>>))
    /\ it.tag_ids_to_buffer = {}
    /\ Len(it.log) = 3
    /\ ~it.log[1].determined /\ it.log[1].stack = <<>>
    /\ it.log[2].stack = SynthesizedStack(<<[k |-> "Id", id |-> Segment]>>)
                         \o <<PushedEntry(it.log[1])>>
    /\ obs.nones > 0
    /\ \A k \in DOMAIN obs.items : obs.items[k].ok

-----------------------------------------------------------------------------
(* The signed vint encoders on their own: one i64 is encoded with the minimal
   width or with a width given by the caller *)

\* the widths given to as_signed_vint_with_length
VintWidths == 1..8

InitSigned ==
    /\ vt \in {[NoVint EXCEPT !.op = "new", !.signed = TRUE, !.val = v] : v \in VintValues}
    /\ wr = NoWriter
    /\ it = NoIterator
    /\ obs = NoObs

\* val.as_signed_vint_with_length(length); obs keeps the width
AsSignedVintWithLength ==
    /\ vt.op = "new" /\ vt.signed
    /\ \E length \in VintWidths :
          /\ vt' = [vt EXCEPT !.op = "encoded", !.enc = as_signed_vint_with_length(vt.val, length)]
          /\ obs' = [op |-> "with_length", length |-> length]
    /\ UNCHANGED <<wr, it>>

NextSigned == AsSignedVint \/ AsSignedVintWithLength

SpecSigned == InitSigned /\ [][NextSigned]_vars

\* C29: as_signed_vint_with_length(W) succeeds exactly for the values v with
\* -2^(7W-1) <= v < 2^(7W-1) and returns WriteSignedVintOverflow for every
\* other value; as_signed_vint succeeds exactly for the values of the width-8
\* range.
C29_SignedVintRange ==
    vt.op = "encoded" =>
        LET W == IF obs.op = "with_length" THEN obs.length ELSE 8
        IN  /\ vt.enc.ok <=> FitsSigned(vt.val, W)
            /\ ~vt.enc.ok => vt.enc.err = "WriteSignedVintOverflow"

\* -64, the lower end of the range of width 1, has been given to
\* as_signed_vint_with_length(1)
C29_Witness ==
    /\ vt.op = "encoded" /\ obs.op = "with_length" /\ obs.length = 1
    /\ vt.val = NegShl1(6)

\* the claim with the lower end of each range left out: the encoders succeed
\* exactly for -2^(7W-1) < v < 2^(7W-1), and with_length gives W bytes
C29_ExceptLowerEnd ==
    vt.op = "encoded" =>
        LET W == IF obs.op = "with_length" THEN obs.length ELSE 8
        IN  /\ vt.enc.ok <=> (FitsSigned(vt.val, W) /\ vt.val # NegShl1(7 * W - 1))
            /\ ~vt.enc.ok => vt.enc.err = "WriteSignedVintOverflow"
            /\ (vt.enc.ok /\ obs.op = "with_length") => Len(vt.enc.bytes) = W

-----------------------------------------------------------------------------
(* The numeric payloads: arr_to_u64, arr_to_i64 and arr_to_f64 on a slice, and
   the match of read_tag on the body of an UnsignedInt, Integer or Float
   element of the schema Trial of tests/derive_spec_compile_with_hierarchy.rs *)

\* tests/derive_spec_compile_with_hierarchy.rs: Count (0x100), Id (0x101) and
\* Amount (0x102)
TrialCount == <<1, 0>>
TrialId == <<1, 1>>
TrialAmount == <<1, 2>>
TrialIdOf(type) ==
    IF type = "UnsignedInt" THEN TrialCount ELSE IF type = "Integer" THEN TrialId
    ELSE TrialAmount

\* the bytes of the short payloads, and the payloads: every slice of up to 3
\* of these bytes, f32 and f64 patterns, and a slice of 9 bytes
PayloadBytes == {0, 1, 127, 128, 255}
MaxShortPayload == 3
NumericPayloads ==
    UNION {[1..n -> PayloadBytes] : n \in 0..MaxShortPayload}
    \cup {<<63, 128, 0, 0>>, <<192, 73, 15, 219>>, <<0, 0, 0, 0>>, <<127, 128, 0, 0>>,
          <<127, 192, 0, 0>>, <<255, 255, 255, 214>>}
    \cup {Zeros(8), Repeat(255, 8), <<63, 240, 0, 0, 0, 0, 0, 0>>, <<128, 0, 0, 0, 0, 0, 0, 1>>}
    \cup {Zeros(9)}

NewNumericObs(type, raw_data) ==
    [op |-> "new", type |-> type, raw_data |-> raw_data, conv |-> ErrBytes("none")]

InitNumeric ==
    /\ vt = NoVint
    /\ wr = NoWriter
    /\ it = TagIterator_new(<<>>, {})
    /\ obs \in {NewNumericObs(type, raw_data) :
                   type \in {"UnsignedInt", "Integer", "Float"}, raw_data \in NumericPayloads}

\* tools::arr_to_u64(raw_data), arr_to_i64(raw_data) or arr_to_f64(raw_data)
ArrToNumber ==
    /\ obs.op = "new"
    /\ obs' = [obs EXCEPT !.op = "converted",
                          !.conv = IF obs.type = "UnsignedInt" THEN arr_to_u64(obs.raw_data)
                                   ELSE IF obs.type = "Integer" THEN arr_to_i64(obs.raw_data)
                                   ELSE arr_to_f64(obs.raw_data)]
    /\ UNCHANGED <<vt, wr, it>>

\* the match of read_tag on the body of an element whose header, with a size
\* of at most 8, has been accepted by peek_valid_tag_header
BuildTag ==
    /\ obs.op = "new" /\ Len(obs.raw_data) <= 8
    /\ LET built(r) ==
               /\ it' = r.it
               /\ obs' = [op |-> "read", type |-> obs.type, raw_data |-> obs.raw_data,
                          ok |-> r.ok, err |-> r.err, tag |-> r.pt.tag]
       IN  built(build_tag(it, TrialIdOf(obs.type), obs.type, Known(Len(obs.raw_data)),
                           0, 3, obs.raw_data))
    /\ UNCHANGED <<vt, wr>>

NextNumeric == ArrToNumber \/ BuildTag

SpecNumeric == InitNumeric /\ [][NextNumeric]_vars

\* C30: arr_to_u64 and arr_to_i64 return Ok(0) for the empty slice, an
\* UnsignedInt or Integer element of size 0 is read as the value 0 without an
\* error or a panic, and a Float element of size 0 yields CorruptedTagData
\* with ReadF64Mismatch.
C30_EmptyNumericPayloads ==
    obs.raw_data = <<>> =>
        /\ (obs.op = "converted" /\ obs.type \in {"UnsignedInt", "Integer"}) =>
              obs.conv = OkBytes(Zeros(8))
        /\ (obs.op = "read" /\ obs.type \in {"UnsignedInt", "Integer"}) =>
              /\ ~Panicked(it)
              /\ obs.ok
              /\ obs.tag = PrimTag(TrialIdOf(obs.type), Zeros(8))
        /\ (obs.op = "read" /\ obs.type = "Float") =>
              /\ ~Panicked(it)
              /\ ~obs.ok
              /\ obs.err = CorruptedTagData(TrialAmount, "ReadF64Mismatch")

\* the body of an Integer element of size 0 has gone through the match of
\* read_tag
C30_Witness ==
    /\ obs.op = "read" /\ obs.type = "Integer" /\ obs.raw_data = <<>>

\* the claim without the Integer: the empty slice is 0 for arr_to_u64 and for
\* an UnsignedInt element, and ReadF64Mismatch for a Float element; every
\* Integer body of 1 to 8 bytes is read without a panic
C30_ExceptInteger ==
    /\ (obs.raw_data = <<>> /\ obs.type = "UnsignedInt") =>
          /\ obs.op = "converted" => obs.conv = OkBytes(Zeros(8))
          /\ obs.op = "read" => ~Panicked(it) /\ obs.ok /\ obs.tag = PrimTag(TrialCount, Zeros(8))
    /\ (obs.raw_data = <<>> /\ obs.type = "Float" /\ obs.op = "read") =>
          ~Panicked(it) /\ ~obs.ok /\ obs.err = CorruptedTagData(TrialAmount, "ReadF64Mismatch")
    /\ (obs.raw_data # <<>> /\ obs.op = "read") => ~Panicked(it)

-----------------------------------------------------------------------------
(* Reader with a maximum tag size: set_max_allowable_tag_size and allow_errors
   before the first call of next() *)

\* tests/corrupt_data_tests.rs, get_data_with_6_byte_tag: a Block of 6 bytes
\* in Unknown-size masters
DocSixByteTag == ElemU(Segment, ElemU(Cluster, Elem(Block, <<1, 2, 3, 4, 5, 6>>)))

\* the sizes given to set_max_allowable_tag_size
MaxTagSizes == {0, 2, 5}

MaxSizeInputs ==
    {<<d, {}>> : d \in Docs \cup {DocSixByteTag} \cup Substitutions(DocRoot)
                       \cup Substitutions(DocSixByteTag) \cup Prefixes(DocSixByteTag)}
    \cup {<<DocRoot, {Parent}>>, <<DocSixByteTag, {Cluster}>>, <<DocSegment, {Segment}>>}

InitMaxSize ==
    /\ vt = NoVint
    /\ wr = NoWriter
    /\ it \in {TagIterator_new(in[1], in[2]) : in \in MaxSizeInputs}
    /\ obs = NewObs

\* reader.set_max_allowable_tag_size(Some(size)), before the first call of next()
SetMaxAllowableTagSize ==
    /\ it.log = <<>> /\ obs = NewObs /\ it.max_allowed_tag_size = None
    /\ \E size \in MaxTagSizes : it' = set_max_allowable_tag_size(it, Some(size))
    /\ UNCHANGED <<vt, wr, obs>>

NextMaxSize == SetMaxAllowableTagSize \/ AllowErrors \/ NextItem

SpecMaxSize == InitMaxSize /\ [][NextMaxSize]_vars

\* the reader of the same stream with the same buffering set and allowances
\* and no maximum tag size
UnlimitedReader ==
    [TagIterator_new(it.source_data, it.tag_ids_to_buffer) EXCEPT
         !.allowed_errors = it.allowed_errors]

\* the header at the offset of a read declares a Known size above size
DeclaresMoreThan(h, size) == HeaderKnown(h) /\ U64Lt(U64(size), h.value)

\* C27: with a maximum tag size M, the read of a header that declares a Known
\* size greater than M yields InvalidTagSize with the offset and the id of the
\* header and the declared size, and no such element is returned; no read of
\* a header that declares less, or an Unknown size, yields InvalidTagSize, and
\* up to the first InvalidTagSize the reader has returned the items the
\* reader without a maximum returns.
C27_MaximumTagSize ==
    it.max_allowed_tag_size # None =>
        LET M == it.max_allowed_tag_size[1]
            ref == Concat(SyncResults(UnlimitedReader, CallsMade))
        IN  /\ \A n \in DOMAIN it.log :
                  LET e == it.log[n]
                      h == StreamHeader(it.source_data, e.tag_start)
                  IN  ~e.panicked =>
                        /\ DeclaresMoreThan(h, M) =>
                              /\ ~e.ok
                              /\ e.err = InvalidTagSize(e.tag_start, h.id, SizeToNat(h.value))
                        /\ (e.err.kind = "InvalidTagSize" /\ h.complete) =>
                              DeclaresMoreThan(h, M)
                        /\ (e.ok /\ e.pt.size.known) => e.pt.size.value <= M
            /\ \A k \in DOMAIN obs.items :
                  (\A j \in 1..k : obs.items[j].err.kind # "InvalidTagSize") =>
                      k <= Len(ref) /\ obs.items[k] = ref[k]

\* error_on_oversized_tag: with the maximum 5 the reader has returned the
\* starts of Segment and Cluster and then InvalidTagSize for the Block of 6
\* bytes
C27_Witness ==
    /\ it.source_data = DocSixByteTag /\ it.tag_ids_to_buffer = {}
    /\ it.max_allowed_tag_size = Some(5)
    /\ Len(obs.items) = 3
    /\ obs.items[1].ok /\ obs.items[2].ok
    /\ obs.items[3] = ErrItem(InvalidTagSize(10, Block, 6))

-----------------------------------------------------------------------------
(* Headers the stream ends in *)

\* the stream holds a complete id at offset and ends before the end of the
\* size vint that follows it
TruncatedAfterId(stream, offset) ==
    LET rest == SubSeq(stream, offset + 1, Len(stream))
        id_len == 8 - ilog2(rest[1])
    IN  /\ rest # <<>> /\ rest[1] # 0
        /\ id_len <= Len(rest)
        /\ read_vint(SubSeq(rest, id_len + 1, Len(rest))).res = "none"

\* the id the stream holds at offset
StreamIdAt(stream, offset) ==
    SubSeq(stream, offset + 1, offset + 8 - ilog2(stream[offset + 1]))

\* C28: a read at an offset where the stream holds a complete tag id and ends
\* before the end of the size vint returns UnexpectedEOF with tag_start the
\* offset of the id, tag_id the id and no tag_size; no byte from beyond the
\* end of the stream decides the result.
C28_TruncatedHeader ==
    \A n \in DOMAIN it.log :
        LET e == it.log[n]
        IN  (~e.panicked /\ TruncatedAfterId(it.source_data, e.tag_start)) =>
                /\ ~e.ok
                /\ e.err = UnexpectedEOF(e.tag_start,
                                         Some(StreamIdAt(it.source_data, e.tag_start)),
                                         None, None)

\* the stream 81 93 41 01 has been read up to the id of Int, which the stream
\* ends after
C28_Witness ==
    /\ it.source_data = SubSeq(DocRoot, 1, 4)
    /\ Len(it.log) = 2
    /\ it.log[2].tag_start = 2
    /\ TruncatedAfterId(it.source_data, 2)
    /\ Len(obs.items) = 2

-----------------------------------------------------------------------------
(* The closing of Known-size masters before a header is read *)

\* the open Known-size masters whose body ends at or before the read position
EndedKnown(i) ==
    {k \in DOMAIN i.tag_stack :
        /\ i.tag_stack[k].size.known
        /\ i.tag_stack[k].data_start + i.tag_stack[k].size.value <= current_offset(i)}

\* the Master::End events of the entries of the stack from index on, the
\* innermost first
EndsFrom(stack, index) ==
    [j \in 1..(Len(stack) - index + 1) |->
        OkItem(MasterTag(get_id(stack[Len(stack) - j + 1].tag), "End"),
               stack[Len(stack) - j + 1].tag_start)]

\* no header is read while a Known-size master of the stack has ended
NoneEndedAtRead ==
    \A n \in DOMAIN it.log :
        \A k \in DOMAIN it.log[n].stack :
            it.log[n].stack[k].size.known =>
                it.log[n].stack[k].data_start + it.log[n].stack[k].size.value
                    > it.log[n].tag_start

\* a call of next() that finds the queue empty and a Known-size master at its
\* end returns the End of the innermost open master and leaves the Ends of
\* the others, up to the outermost ended one, at the head of the queue; the
\* header that is read next finds the masters outside it on the stack
CascadeStep ==
    (/\ ~Panicked(it) /\ ~Panicked(it')
     /\ it.emission_queue = <<>>
     /\ EndedKnown(it) # {}
     /\ obs'.items # obs.items) =>
        LET index == CHOOSE k \in EndedKnown(it) : \A m \in EndedKnown(it) : k <= m
        IN  /\ Len(obs'.items) = Len(obs.items) + 1
            /\ IsPrefix(EndsFrom(it.tag_stack, index),
                        <<obs'.items[Len(obs'.items)]>> \o it'.emission_queue)
            /\ IF Len(it'.log) > Len(it.log)
               THEN it'.log[Len(it.log) + 1].stack = SubSeq(it.tag_stack, 1, index - 1)
               ELSE it'.tag_stack = <<>>

\* C31: before each header read, if an open Known-size master has
\* data_start + size <= the current offset, the outermost such master and
\* every master opened inside it are popped and their Master::End events are
\* emitted innermost first, before any event or error of the next element.
C31_KnownSizeCascade == []NoneEndedAtRead /\ [][CascadeStep]_vars

\* DocNested has been read with the hierarchy check off: the End of the inner
\* Parent came before the second Child, and at the common end of the outer
\* Parent and of Root the End of Parent came before the End of Root
C31_Witness ==
    /\ it.source_data = DocNested
    /\ it.tag_ids_to_buffer = {}
    /\ Len(obs.items) = 8
    /\ obs.items[5] = OkItem(MasterTag(Parent, "End"), 5)
    /\ obs.items[6].ok /\ obs.items[6].tag.id = Child
    /\ obs.items[7] = OkItem(MasterTag(Parent, "End"), 2)
    /\ obs.items[8] = OkItem(MasterTag(Root, "End"), 0)

-----------------------------------------------------------------------------
(* The masters still open at the end of the stream *)

\* no byte is left in the buffer or in the source
AtEndOfStream(i) ==
    /\ i.internal_buffer_position = i.buffered_byte_length
    /\ i.source_pos = Len(i.source_data)

\* the events the entries of the stack carry, first entry first
OldestFirst(stack) == [k \in DOMAIN stack |-> OkItem(stack[k].tag, stack[k].tag_start)]

\* a call of next() at the end of the stream, with masters open and nothing
\* queued, returns the first of events, queues the rest and empties the stack
EofDrain(events) ==
    (/\ ~Panicked(it) /\ ~Panicked(it')
     /\ it.emission_queue = <<>> /\ it.tag_stack # <<>> /\ AtEndOfStream(it)
     /\ obs'.items # obs.items) =>
        /\ obs'.items = Append(obs.items, events[1])
        /\ it'.emission_queue = Tail(events)
        /\ it'.tag_stack = <<>>

-----------------------------------------------------------------------------
(* The values the entries of the stack carry *)

\* an entry made by peek_valid_tag_header from the path of the first tag: no
\* header read from the stream has its data at offset 0
IsSynthesized(e) == e.data_start = 0 /\ e.tag_start = 0 /\ ~e.size.known

\* C33: stack sentinel invariant: in every reachable reader state every entry
\* of the open-master stack carries a Master::End value of its id, the entries
\* synthesized by the stream-start heuristic included.
C33_StackSentinel ==
    ~Panicked(it) =>
        \A k \in DOMAIN it.tag_stack : as_master(it.tag_stack[k].tag) = "End"

\* the stream started below the root and the stack holds the path of its first tag
C33_Witness ==
    /\ ~Panicked(it) /\ it.has_determined_doc_path
    /\ it.source_data = SubSeq(DocRootU, 11, Len(DocRootU))
    /\ Len(obs.items) = 1 /\ obs.items[1].ok /\ get_id(obs.items[1].tag) = Child
    /\ Len(it.tag_stack) = 2
    /\ \A k \in DOMAIN it.tag_stack : IsSynthesized(it.tag_stack[k])

\* every entry pushed by read_next carries Master::End
C33_ExceptSynthesized ==
    ~Panicked(it) =>
        \A k \in DOMAIN it.tag_stack :
            ~IsSynthesized(it.tag_stack[k]) => as_master(it.tag_stack[k].tag) = "End"

-----------------------------------------------------------------------------
(* The Unknown-size masters a tag ends *)

\* the entries of the stack that have an Unknown size and are ended by tag_id
EndedUnknown(stack, tag_id) ==
    {k \in DOMAIN stack : ~stack[k].size.known /\ is_ended_by(get_id(stack[k].tag), tag_id)}

\* the header of the read e went through the path validator and was accepted
\* at an Unknown-size master it ends: the validator walks the stack from the
\* outermost entry and returns true at the first such master it comes to
AcceptedByOverride(e) ==
    /\ e.ok /\ e.determined /\ ~Allows(e.allowed, INVALID_HIERARCHY_ERROR)
    /\ get_id(e.pt.tag) \in SpecIds
    /\ EndedUnknown(e.stack, get_id(e.pt.tag)) # {}
    /\ validate_tag_path(get_id(e.pt.tag), e.stack)

\* the outermost master the tag of the read e ends
OverrideIndex(e) ==
    CHOOSE k \in EndedUnknown(e.stack, get_id(e.pt.tag)) :
        \A m \in EndedUnknown(e.stack, get_id(e.pt.tag)) : k <= m

\* a call of next() that reads one header, which the override lets pass
OverrideRead ==
    /\ ~Panicked(it) /\ ~Panicked(it')
    /\ it.emission_queue = <<>> /\ it.tag_ids_to_buffer = {}
    /\ Len(it'.log) = Len(it.log) + 1
    /\ AcceptedByOverride(it'.log[Len(it'.log)])

\* the master that let the tag pass and the masters inside it are off the
\* stack, and their events come right before the event of the tag
OverrideCloses ==
    LET e == it'.log[Len(it'.log)]
        index == OverrideIndex(e)
        events == <<obs'.items[Len(obs'.items)]>> \o it'.emission_queue
        closing == DrainRev(e.stack, index) \o <<OkItem(e.pt.tag, e.pt.tag_start)>>
    IN  /\ Len(obs'.items) = Len(obs.items) + 1
        /\ Len(events) >= Len(closing)
        /\ SubSeq(events, Len(events) - Len(closing) + 1, Len(events)) = closing
        /\ IsPrefix(SubSeq(e.stack, 1, index - 1), it'.tag_stack)
        /\ Len(it'.tag_stack) \in {index - 1, index}

\* C34: Unknown-size override closes the ancestor: whenever the path validator
\* accepts a tag because an open Unknown-size master, at any depth of the
\* stack, is ended by it, that master and everything opened inside it are
\* closed, their events emitted before the event of the tag, and the tag is
\* never emitted as a descendant of a master it ends.
C34_UnknownSizeOverride == [][OverrideRead => OverrideCloses]_vars

\* a tag the override let pass has been returned
C34_Witness ==
    /\ ~Panicked(it) /\ it.tag_ids_to_buffer = {} /\ it.emission_queue = <<>>
    /\ it.log # <<>> /\ obs.items # <<>>
    /\ AcceptedByOverride(it.log[Len(it.log)])
    /\ OverrideIndex(it.log[Len(it.log)]) < Len(it.log[Len(it.log)].stack)
    /\ obs.items[Len(obs.items)] =
           OkItem(it.log[Len(it.log)].pt.tag, it.log[Len(it.log)].pt.tag_start)

\* the override closes the masters when every master inside the one that let
\* the tag pass has an Unknown size and is ended by the tag too
C34_ExceptInnerOpen ==
    [][(/\ OverrideRead
        /\ \A m \in OverrideIndex(it'.log[Len(it'.log)])..Len(it'.log[Len(it'.log)].stack) :
               m \in EndedUnknown(it'.log[Len(it'.log)].stack,
                                  get_id(it'.log[Len(it'.log)].pt.tag)))
       => OverrideCloses]_vars

-----------------------------------------------------------------------------
(* Paths with a Global part: validate_tag_path of a tag whose declared path
   is [Global((min, max))] or [Id(a), Global((min, max)), Id(b)], against
   stacks of open masters none of which the tag ends *)

\* the bounds of a Global part are None (-1) or 0..MaxGlobalBound, and the
\* stacks hold up to MaxStackDepth masters
MaxGlobalBound == 2
MaxStackDepth == 4

GlobalBounds == {-1} \cup 0..MaxGlobalBound

\* the ids a and b of the path, and the masters in between
PathA == Segment
PathB == Cluster
GlobalPaths ==
    {<<PathGlobal(min, max)>> : min \in GlobalBounds, max \in GlobalBounds}
    \cup {<<PathId(PathA), PathGlobal(min, max), PathId(PathB)>> :
             min \in GlobalBounds, max \in GlobalBounds}

\* open masters: no master is ended by Void, whatever its size
OpenMasters ==
    {ProcessingTag(MasterTag(PathA, "End"), Known(100), 0, 0),
     ProcessingTag(MasterTag(PathB, "End"), Known(100), 0, 0),
     ProcessingTag(MasterTag(Root, "End"), Known(100), 0, 0),
     ProcessingTag(MasterTag(Parent, "End"), Unknown, 0, 0)}
OpenStacks == UNION {[1..n -> OpenMasters] : n \in 0..MaxStackDepth}

InitPath ==
    /\ vt = NoVint
    /\ wr = NoWriter
    /\ it = TagIterator_new(<<>>, {})
    /\ obs \in {[op |-> "path", path |-> path, stack |-> stack, valid |-> FALSE] :
                   path \in GlobalPaths, stack \in OpenStacks}

\* TagIterator::validate_tag_path for the tag Void, with obs.path as the path
\* the schema declares for it and obs.stack as tag_stack
ValidateTagPath ==
    /\ obs.op = "path"
    /\ obs' = [obs EXCEPT !.op = "validated",
                          !.valid = validate_from(Void, obs.path, obs.stack, 1, 0, 0)]
    /\ UNCHANGED <<vt, wr, it>>

NextPath == ValidateTagPath

SpecPath == InitPath /\ [][NextPath]_vars

\* n is at least min, if set, and at most max, if set
WithinBounds(n, global) ==
    /\ global.min = -1 \/ n >= global.min
    /\ global.max = -1 \/ n <= global.max

NoneEndedByTag == \A k \in DOMAIN obs.stack : ~is_ended_by(get_id(obs.stack[k].tag), Void)

\* the stack is a, g1..gk, b, no g being b
IsABStack(stack) ==
    /\ Len(stack) >= 2
    /\ get_id(stack[1].tag) = PathA /\ get_id(stack[Len(stack)].tag) = PathB
    /\ \A k \in 2..(Len(stack) - 1) : get_id(stack[k].tag) # PathB

\* a stack with b inside it, which can be read as a, g1..gk, b in several ways
HasInnerB(stack) == \E k \in 2..(Len(stack) - 1) : get_id(stack[k].tag) = PathB

\* with the path [Global((min, max))] a stack of n masters is accepted iff n
\* is within the bounds
TrailingGlobal ==
    (obs.op = "validated" /\ Len(obs.path) = 1 /\ NoneEndedByTag) =>
        (obs.valid <=> WithinBounds(Len(obs.stack), obs.path[1]))

\* with the path [Id(a), Global((min, max)), Id(b)] the stacks accepted are
\* the stacks a, g1..gk, b with k + shift within the bounds
InnerGlobal(shift) ==
    (obs.op = "validated" /\ Len(obs.path) = 3 /\ NoneEndedByTag /\ ~HasInnerB(obs.stack)) =>
        (obs.valid <=> (/\ IsABStack(obs.stack)
                        /\ WithinBounds(Len(obs.stack) - 2 + shift, obs.path[2])))

\* C35: Global path bounds: for a tag whose declared path is a single
\* Global((min, max)) and a stack of n open masters none of which is ended by
\* the tag, validate_tag_path returns true iff n >= min (when set) and
\* n <= max (when set); with the path [Id(a), Global((min, max)), Id(b)] it
\* accepts exactly the stacks a, g1..gk, b whose number k of intermediate
\* masters satisfies the same bounds.
C35_GlobalPathBounds == TrailingGlobal /\ InnerGlobal(0)

\* the stack a, b has been accepted for a path that asks for at least one
\* master between a and b
C35_Witness ==
    /\ obs.op = "validated" /\ obs.valid
    /\ obs.path = <<PathId(PathA), PathGlobal(1, -1), PathId(PathB)>>
    /\ Len(obs.stack) = 2 /\ IsABStack(obs.stack)

\* the code counts b itself among the masters the Global part matches
C35_CountingB == TrailingGlobal /\ InnerGlobal(1)

-----------------------------------------------------------------------------
(* The size vints of the elements the writer emits with a known size *)

\* the last call succeeded and wrote an element with a known size: a
\* primitive, a Master::Full, the content of write_raw, or the Master::End of
\* a frame opened by write(Master::Start)
WroteSizedElement ==
    /\ wr.calls # <<>> /\ LastCall.res = WriteOk
    /\ \/ LastCall.f = "write_raw"
       \/ LastCall.f = "write" /\ LastCall.tag.m \in {"NotMaster", "Full"}
       \/ /\ LastCall.f = "write" /\ LastCall.tag.m = "End"
          /\ wr.prev.open_tags[Len(wr.prev.open_tags)].size.known

\* the offset of that element in the bytes produced: it is appended to them,
\* or, for a Master::End, starts where the frame recorded the start of its body
SizedElementOffset ==
    IF LastCall.tag.m = "End"
    THEN Len(wr.prev.dest) + wr.prev.open_tags[Len(wr.prev.open_tags)].size.value
    ELSE Len(Produced(wr.prev))

\* the size vint of the element that starts at offset with the id given,
\* and the length of the body, which runs to the end of the bytes produced
SizeVintAt(out, offset, id) ==
    read_vint(SubSeq(out, offset + Len(id) + 1, Min(offset + Len(id) + 8, Len(out))))
BodyLengthAt(out, offset, id) ==
    Len(out) - offset - Len(id) - SizeVintAt(out, offset, id).length

\* the size vint of the element the last call wrote is read as Known(n), n
\* being the length of its body
SizeReadAsKnown ==
    LET out == Produced(wr.w)
        v == SizeVintAt(out, SizedElementOffset, LastCall.tag.id)
    IN  /\ v.res = "some"
        /\ EBMLSize_new(v.value, v.length)
               = Known(BodyLengthAt(out, SizedElementOffset, LastCall.tag.id))

\* C36: no accidental Unknown size: for every element the writer emits with a
\* known size (a primitive written by write or write_raw, a master closed by
\* Master::End) the size vint written is classified by EBMLSize::new as
\* Known(n), n being the body length, body lengths of 2^(7w) - 1 included.
C36_NoAccidentalUnknown == WroteSizedElement => SizeReadAsKnown

\* the master Root with a body of 127 bytes has been written
C36_Witness ==
    /\ Len(wr.calls) = 1 /\ WroteSizedElement
    /\ LastCall.tag = FullTag(Root, <<PrimTag(Void, Zeros(125))>>)
    /\ Produced(wr.w) = Root \o <<255>> \o Void \o <<253>> \o Zeros(125)

\* the size vint is read as Known(n) whenever the minimal-width vint of n is
\* not the all-ones pattern of its width
C36_ExceptAllOnes ==
    (/\ WroteSizedElement
     /\ SizeVintAt(Produced(wr.w), SizedElementOffset, LastCall.tag.id).res = "some"
     /\ \A w \in 1..8 :
            U64(BodyLengthAt(Produced(wr.w), SizedElementOffset, LastCall.tag.id))
                # AllOnes(w))
        => SizeReadAsKnown

-----------------------------------------------------------------------------
(* The writer after a Master::End that no open frame matches *)

\* the last call was write(Master::End) and failed with UnexpectedClosingTag
FailedClose == LastWrote("End") /\ LastCall.res.kind = "UnexpectedClosingTag"

\* C38: failed close leaves the writer unchanged: a write(Master::End) that
\* fails with UnexpectedClosingTag leaves the frame stack, the working buffer
\* and the sink as they were before the call.
C38_FailedCloseUnchanged ==
    FailedClose =>
        /\ wr.w.open_tags = wr.prev.open_tags
        /\ wr.w.working_buffer = wr.prev.working_buffer
        /\ wr.w.dest = wr.prev.dest

\* the End of Parent has been written while the innermost open frame was Root
C38_Witness ==
    /\ FailedClose
    /\ LastCall.tag = MasterTag(Parent, "End")
    /\ LastCall.res = UnexpectedClosingTag(Parent, Some(Root))
    /\ wr.prev.open_tags # <<>>

\* the working buffer and the sink are as before the call, and so is the frame
\* stack when no frame was open; otherwise the innermost frame is gone
C38_ExceptInnermostFrame ==
    FailedClose =>
        /\ wr.w.working_buffer = wr.prev.working_buffer
        /\ wr.w.dest = wr.prev.dest
        /\ wr.w.open_tags = SubSeq(wr.prev.open_tags, 1, Len(wr.prev.open_tags) - 1)

-----------------------------------------------------------------------------
(* The read position and the bytes read *)

\* C37: read position invariant: in every reachable reader state, after every
\* sequence of next() and try_recover() calls on every stream,
\* internal_buffer_position <= buffered_byte_length, and the panic "read
\* position exceeded buffer length" of read_tag_checked is not reached.
C37_ReadPositionInvariant ==
    it # NoIterator =>
        /\ it.internal_buffer_position <= it.buffered_byte_length
        /\ it.panic # "read position exceeded buffer length"

\* the header of Root, cut after the first byte of its size vint, has been
\* read as a header of nine bytes
C37_Witness ==
    /\ it # NoIterator /\ ~Panicked(it)
    /\ it.source_data = <<129, 1>> /\ it.tag_ids_to_buffer = {}
    /\ obs.items = <<OkItem(MasterTag(Root, "Start"), 0)>>
    /\ it.buffered_byte_length = 2 /\ it.internal_buffer_position = 9

\* the next call of next() after it panics
C37_PanicReached ==
    /\ it # NoIterator /\ it.source_data = <<129, 1>>
    /\ it.panic = "read position exceeded buffer length"

-----------------------------------------------------------------------------
(* Errors met while a master of the buffering set is collected *)

\* the reads made by the step, as indices of it'.log
NewReads == (Len(it.log) + 1)..Len(it'.log)

\* the read n of the step is the header of a master of the buffering set
ReadsBufferedMaster(n) ==
    /\ it'.log[n].ok
    /\ as_master(it'.log[n].pt.tag) = "Start"
    /\ get_id(it'.log[n].pt.tag) \in it.tag_ids_to_buffer

\* the entry read_next pushes for the master of the read e
EntryOf(e) ==
    ProcessingTag(MasterTag(get_id(e.pt.tag), "End"), e.pt.size, e.pt.tag_start,
                  e.pt.data_start)

\* the masters of the buffering set read by the step that were still open when
\* its last read failed
Materializing ==
    {n \in NewReads :
        /\ n < Len(it'.log)
        /\ ReadsBufferedMaster(n)
        /\ \E k \in DOMAIN it'.log[Len(it'.log)].stack :
               it'.log[Len(it'.log)].stack[k] = EntryOf(it'.log[n])}

\* a call of next() in which an error is met while a master of the buffering
\* set is collected
ErrorWhileBuffering ==
    /\ ~Panicked(it) /\ ~Panicked(it')
    /\ it.emission_queue = <<>>
    /\ Len(it'.log) > Len(it.log) + 1
    /\ ~it'.log[Len(it'.log)].ok
    /\ Materializing # {}

\* the events the call hands on end with the error, and those before it belong
\* to what came before the outermost master being collected: none starts
\* after the header of that master, and none is its Master::Start or
\* Master::Full; the masters being collected stay open
OnlyTheError ==
    LET events == <<obs'.items[Len(obs'.items)]>> \o it'.emission_queue
        first == CHOOSE n \in Materializing : \A m \in Materializing : n <= m
        master == it'.log[first].pt
    IN  /\ Len(obs'.items) = Len(obs.items) + 1
        /\ events[Len(events)] = ErrItem(it'.log[Len(it'.log)].err)
        /\ \A k \in 1..(Len(events) - 1) :
               /\ events[k].ok
               /\ events[k].off <= master.tag_start
               /\ ~(/\ events[k].off = master.tag_start
                    /\ get_id(events[k].tag) = get_id(master.tag)
                    /\ as_master(events[k].tag) \in {"Start", "Full"})
        /\ \A n \in Materializing :
               \E k \in DOMAIN it'.tag_stack : it'.tag_stack[k] = EntryOf(it'.log[n])

\* C39: error inside a buffered master: if an error is produced while a master
\* of the buffering set is being materialized, the consumer receives for that
\* subtree only the error: the events read for its children are dropped,
\* neither a Master::Start nor a Master::Full of the master is emitted, and the
\* entry of the master stays on the open-master stack.
C39_ErrorInsideBufferedMaster == [][ErrorWhileBuffering => OnlyTheError]_vars

\* Root is buffered, its child Int has been read and the stream ends in the
\* body of its child String: the call has returned the error alone
C39_Witness ==
    /\ ~Panicked(it)
    /\ it.source_data = SubSeq(DocRoot, 1, 10) /\ Root \in it.tag_ids_to_buffer
    /\ Len(it.log) = 3 /\ it.log[2].ok /\ ~it.log[3].ok
    /\ obs.items = <<ErrItem(it.log[3].err)>>
    /\ it.emission_queue = <<>>
    /\ Len(it.tag_stack) = 1 /\ get_id(it.tag_stack[1].tag) = Root

-----------------------------------------------------------------------------
(* A consumer that keeps calling next(): the reader is created with or without
   allowances and next() is called again and again, without try_recover.  The
   log of the reads is not kept.  obs holds the item of the last call and
   whether a call has returned None; wr stands for the consumer and holds the
   parity of the number of calls it has made. *)

AllowanceSettings == {{}, {"InvalidTagIds", "HierarchyProblems", "OversizedTags"}}

\* whole and truncated documents, well formed and corrupted, read unbuffered
\* and with a buffered master
TerminationInputs ==
    {<<s, {}>> : s \in Prefixes(DocRoot) \cup Prefixes(DocInvalidId)
                      \cup {DocRootU, DocSegmentU, DocHierarchy, DocOversized}}
    \cup {<<s, {Parent}>> : s \in Prefixes(DocRoot)}

NewCallObs ==
    [op |-> "calls", called |-> FALSE, last |-> None, seen_none |-> FALSE, repeated |-> FALSE]
Consumer(parity) == [op |-> "consumer", parity |-> parity]

InitTermination ==
    /\ vt = NoVint
    /\ wr = Consumer(0)
    /\ it \in {allow_errors(TagIterator_new(in[1], in[2]), errors) :
                  in \in TerminationInputs, errors \in AllowanceSettings}
    /\ obs = NewCallObs

\* reader.next(), called by a consumer that goes on after errors and after None
KeepCalling ==
    /\ ~Panicked(it)
    /\ LET called(r) ==
               /\ it' = [r.it EXCEPT !.log = <<>>]
               /\ obs' = IF Panicked(r.it) THEN obs
                         ELSE [obs EXCEPT !.called = TRUE,
                                          !.last = r.item,
                                          !.seen_none = @ \/ r.item = None,
                                          !.repeated = obs.called /\ r.item = obs.last]
       IN  called(next(it))
    /\ wr' = Consumer(1 - wr.parity)
    /\ UNCHANGED vt

NextTermination == KeepCalling

\* the consumer's side of a call of next(): every call flips the parity
ConsumerCalls == ~Panicked(it) /\ wr' = Consumer(1 - wr.parity)

\* the consumer keeps calling: as long as the reader has not panicked, another
\* call of next() is made
SpecTermination == InitTermination /\ [][NextTermination]_vars /\ WF_wr(ConsumerCalls)

ReceivedNone == obs.called /\ obs.last = None

\* once a call has returned None, the last call has returned None and the
\* queue and the stack are empty
NoneIsFinal ==
    obs.seen_none =>
        /\ obs.last = None
        /\ it.emission_queue = <<>>
        /\ it.tag_stack = <<>>

\* C40: termination: for every finite stream and every setting of allowances
\* and buffering set, a consumer that keeps calling next(), without
\* try_recover, eventually receives None, and after the first None every later
\* call returns None with an empty emission queue and an empty stack.
C40_Termination == <>ReceivedNone /\ []NoneIsFinal

\* the same InvalidTagId is returned by two calls in a row, at the same position
C40_Witness ==
    /\ obs.op = "calls" /\ obs.repeated /\ ~obs.seen_none
    /\ it.source_data = DocInvalidId /\ it.allowed_errors = 0
    /\ obs.last # None /\ ~obs.last[1].ok
    /\ obs.last[1].err.kind = "InvalidTagId"
=============================================================================
